---- MODULE Spec2Model ----
(***************************************************************************)
(* A model of the vector API of godal (src/vector.go): the ownership of    *)
(* native references held by Geometry and Feature wrappers, the typed      *)
(* field accessor FieldValueQuerier over a Feature's Fields snapshot, and  *)
(* the error context every wrapped native call runs in.                    *)
(*                                                                         *)
(* The native library (GDAL/OGR) is the environment: its heap of objects   *)
(* is the variable heap, and what a native call returns is chosen with \E. *)
(***************************************************************************)
EXTENDS Integers, Sequences, FiniteSets, TLC

\* ------------------------------------------------------------------ bounds
\* Geometry wrappers, Feature wrappers and native objects a behaviour creates.
MaxGeoms == 2
MaxFeats == 1
MaxNative == 3
\* Features stored in the layer the dataset is opened with.
LayerFeatures == 1
\* Sub-geometries of one geometry, layers of the dataset, and the largest
\* fid CreateFeature gives to a feature.
MaxParts == 2
MaxLayers == 2
MaxFid == 0
\* Rings of a polygon that Polygonize writes.
MaxRings == 1
\* The same, in the behaviours that record every call in lastOp.
TracedGeoms == 2
TracedNative == 2
TracedLayers == 1
\* Diagnostics the native library reports during one native call.
MaxEvents == 2
\* Bands of the dataset RasterizeGeometry burns into, and the most bands and
\* values its options name.
MaxBands == 3
\* Field definitions given to one CreateLayer call.
MaxFieldDefs == 2
\* Features stored in the layer that is read again and again; the Feature
\* wrappers read from it are those of two passes.
IterFeatures == 2
IterWraps == 2 * IterFeatures

VARIABLES
    heap,       \* the native objects ever allocated, by handle 1..Len(heap)
    geoms,      \* the Geometry wrappers the caller holds
    feats,      \* the Feature wrappers the caller holds
    cursor,     \* per layer: the fid its next read starts at
    stored,     \* per layer: the features it holds
    trace,      \* whether lastOp is recorded in this behaviour
    lastOp,     \* the last API call: its name, receiver, result and native calls
    crashed,    \* the process died (a panic, or undefined behaviour that crashed)
    schema,     \* the native types of the fields of the feature under test
    native,     \* the native feature's fields: whether set, and the stored value
    fopen,      \* whether that feature's handle is non-nil (not closed)
    flds,       \* the Fields snapshot the caller holds
    held,       \* the *Field the caller holds (a copy of a snapshot entry)
    fout,       \* the last field call and what it returned
    pending,    \* the last value written successfully, and to which field
    pc,         \* per thread: the operation it is in and how far it is
    ctxs,       \* per thread: the error contexts installed and not yet closed
    calls,      \* per thread: the current or last operation and its outcome
    read        \* what the caller got from the first layer in its current pass

varsH == <<heap, geoms, feats, cursor, stored, trace, lastOp, crashed>>
varsF == <<schema, native, fopen, flds, held, fout, pending>>
varsC == <<pc, ctxs, calls>>
vars == <<heap, geoms, feats, cursor, stored, trace, lastOp, crashed,
          schema, native, fopen, flds, held, fout, pending, pc, ctxs, calls,
          read>>

\* ------------------------------------------------------- the native heap
\* A nil C handle.
NULL == 0

\* A native object: whether it is still allocated, and the native objects
\* that hold a pointer to it (a feature its geometry, a container its parts).
NativeObj(kind, owner) ==
    [kind |-> kind, live |-> TRUE,
     owners |-> IF owner = NULL THEN {} ELSE {owner}]

\* o is root, or root holds it directly or through what it holds.
RECURSIVE Under(_, _, _, _)
Under(hp, o, root, fuel) ==
    \/ o = root
    \/ /\ fuel > 0
       /\ \E p \in hp[o].owners : Under(hp, p, root, fuel - 1)

\* The native destroy function on handle h: h and all it holds are released.
\* Who held a pointer to a released object still holds it.
NativeDestroy(hp, h) ==
    [o \in DOMAIN hp |->
        IF Under(hp, o, h, Len(hp)) THEN [hp[o] EXCEPT !.live = FALSE]
        ELSE hp[o]]

\* A native geometry with nsub sub-geometries, held by owner (NULL: standalone).
NativeNewGeom(hp, owner, nsub) ==
    LET h == Len(hp) + 1
    IN  Append(hp, NativeObj("geom", owner))
            \o [i \in 1..nsub |-> NativeObj("geom", h)]

\* The geometries h holds a pointer to, released or not.
Children(hp, h) ==
    {o \in DOMAIN hp : h \in hp[o].owners /\ hp[o].kind = "geom"}

\* S in increasing order.
RECURSIVE SetToSeq(_)
SetToSeq(S) ==
    IF S = {} THEN <<>>
    ELSE LET m == CHOOSE x \in S : \A y \in S : x <= y
         IN  <<m>> \o SetToSeq(S \ {m})

Dangling(h) == h \in DOMAIN heap /\ ~heap[h].live

\* h is released, or holds (directly or not) an object that is.
Broken(h) ==
    /\ h \in DOMAIN heap
    /\ \E o \in DOMAIN heap : ~heap[o].live /\ Under(heap, o, h, Len(heap))

\* What a native call does when handed the handles hs and visiting what they
\* hold: with a released object among it the behaviour is undefined, and the
\* process may crash or go on.
UBOutcomes(hs) ==
    IF \E h \in hs : Broken(h) THEN {"crash", "go"} ELSE {"go"}

\* The same for a native call that reads the objects hs themselves only (a
\* count, a type, a stored pointer).
UBOutcomesShallow(hs) ==
    IF \E h \in hs : Dangling(h) THEN {"crash", "go"} ELSE {"go"}

\* ------------------------------------------------------------- wrappers
\* The operations that return a Geometry the caller owns, and those that
\* return a view into their receiver.
OwningOps ==
    {"Simplify", "Buffer", "Difference", "Union", "ForceToPolygon",
     "ForceToMultiPolygon", "NewGeometryFromWKT", "NewGeometryFromWKB",
     "NewGeometryFromGeoJSON"}

BorrowingOps == {"SubGeometry", "Feature.Geometry"}

Origin(op) ==
    IF op \in OwningOps THEN "owning"
    ELSE IF op \in BorrowingOps THEN "borrowing" ELSE "literal"

\* type Geometry struct { isOwned bool; handle C.OGRGeometryH }, with the
\* history the properties speak of: the kind of operation that returned it,
\* the handle it was created with, the native object it is a view into, and
\* the native destroy calls its Close made.
Geometry(isOwned, handle, op, parent) ==
    [isOwned |-> isOwned, handle |-> handle, origin |-> Origin(op),
     h0 |-> handle, parent |-> parent, destroys |-> 0]

\* type Feature struct { handle C.OGRFeatureH }
Feature(handle) == [handle |-> handle, h0 |-> handle, destroys |-> 0]

\* A call as the caller and the native library saw it. ctx: the call created
\* an error context and made its native call in it; msg: the text of an error
\* the Go code made itself with errors.New ("" for none, and for the errors
\* of a context, whose text is the native library's).
Call(op, recv, res, err, destroyed, nullArg) ==
    [op |-> op, recv |-> recv, res |-> res, err |-> err,
     destroyed |-> destroyed, nullArg |-> nullArg, panic |-> FALSE,
     ctx |-> FALSE, msg |-> ""]

NoCall == Call("none", 0, 0, FALSE, NULL, FALSE)

Record(c) == lastOp' = IF trace THEN c ELSE lastOp

Crash(op, recv, ctx) ==
    /\ crashed' = TRUE
    /\ Record([Call(op, recv, 0, FALSE, NULL, FALSE)
                  EXCEPT !.panic = TRUE, !.ctx = ctx])
    /\ UNCHANGED <<heap, geoms, feats, cursor, stored, trace>>

\* The wrappers and native objects a behaviour may hold: fewer when every
\* call is recorded.
GeomCap == IF trace THEN TracedGeoms ELSE MaxGeoms
NativeCap == IF trace THEN TracedNative ELSE MaxNative

LayerCap == IF trace THEN TracedLayers ELSE MaxLayers

\* The features a layer of n features may hold at first: fids 0..n-1, each
\* with no geometry (-1) or a geometry of that many parts, out of shapes.
LayerContents(n, shapes) ==
    {{[fid |-> i, geom |-> g[i]] : i \in 0..(n - 1)} :
        g \in [0..(n - 1) -> shapes]}

\* The caller's record of the pass it is making over the first layer: got,
\* the results of its NextFeature calls since the last ResetReading (or since
\* the layer was opened), a fid for a feature and -1 for nil, nil results in
\* a row counted once; moved, whether another call has moved the read
\* position of the layer since then; written, whether a feature was added to
\* or taken from the layer since then, after which nothing more is recorded
\* of the pass; count, what FeatureCount last returned for the layer as it
\* is (-1: not asked since it was written).
NoRead == [got |-> <<>>, moved |-> FALSE, written |-> FALSE, count |-> -1]

\* An open dataset with one layer of n features, and nothing read yet.
InitH(n, shapes) ==
    /\ heap = <<>>
    /\ geoms = <<>>
    /\ feats = <<>>
    /\ stored \in {<<c>> : c \in LayerContents(n, shapes)}
    /\ cursor = <<0>>
    /\ lastOp = NoCall
    /\ crashed = FALSE
    /\ read = NoRead

\* ----------------------------------------------- operations on geometries
\* The outcome of a native call that returns a new geometry: a handle, NULL
\* (the invoker then reports a failure), or a handle together with an
\* Error-severity diagnostic.
NativeOutcomes == {"ok", "null", "errobj"}

\* The common shape of Simplify, Buffer, Difference, Union and NewGeometryFrom*:
\* open a context, call the native function on the handles hs, close the
\* context; on an error return nil, err, else &Geometry{isOwned, handle}.
CreateGeom(op, recv, hs, owned) ==
    \E ub \in UBOutcomes(hs), out \in NativeOutcomes, nsub \in 0..MaxParts :
        IF ub = "crash" THEN Crash(op, recv, TRUE)
        ELSE LET nullIn == NULL \in hs
                 res == IF nullIn THEN "null" ELSE out
                 h == Len(heap) + 1
             IN  /\ res # "null" => Len(heap) + 1 + nsub <= NativeCap
                 /\ res = "null" => nsub = 0
                 /\ res = "ok" => Len(geoms) < GeomCap
                 /\ heap' = IF res = "null" THEN heap
                            ELSE NativeNewGeom(heap, NULL, nsub)
                 /\ geoms' = IF res = "ok"
                             THEN Append(geoms, Geometry(owned, h, op, NULL))
                             ELSE geoms
                 /\ Record([Call(op, recv,
                                 IF res = "ok" THEN Len(geoms) + 1 ELSE 0,
                                 res # "ok", NULL, nullIn) EXCEPT !.ctx = TRUE])
                 /\ UNCHANGED <<feats, cursor, stored, trace, crashed>>

Simplify(g) == CreateGeom("Simplify", g, {geoms[g].handle}, TRUE)

\* Buffer returning a wrapper that is not owned.
BufferBorrowed(g) == CreateGeom("Buffer", g, {geoms[g].handle}, FALSE)

Buffer(g) == CreateGeom("Buffer", g, {geoms[g].handle}, TRUE)

\* other = 0 stands for a nil *Geometry.
OtherEmpty(other) == other = 0 \/ geoms[other].handle = NULL

\* Difference and Union without their check of the other geometry.
BinaryGeomUnguarded(op, g, other) ==
    CreateGeom(op, g, {geoms[g].handle,
                       IF other = 0 THEN NULL ELSE geoms[other].handle}, TRUE)

\* if other == nil || other.handle == nil {
\*     return nil, errors.New("other geometry is empty") }
\* and then the common shape.
BinaryGeom(op, g, other) ==
    IF OtherEmpty(other)
    THEN /\ Record([Call(op, g, 0, TRUE, NULL, FALSE)
                       EXCEPT !.msg = "other geometry is empty"])
         /\ UNCHANGED <<heap, geoms, feats, cursor, stored, trace, crashed>>
    ELSE CreateGeom(op, g, {geoms[g].handle, geoms[other].handle}, TRUE)

Difference(g, other) == BinaryGeom("Difference", g, other)

Union(g, other) == BinaryGeom("Union", g, other)

NewGeometryFromGeoJSON == CreateGeom("NewGeometryFromGeoJSON", 0, {}, TRUE)

NewGeometryFromWKT == CreateGeom("NewGeometryFromWKT", 0, {}, TRUE)

\* &wkb[0] panics on an empty slice, before the native call.
NewGeometryFromWKB(wkbLen) ==
    IF wkbLen = 0 THEN Crash("NewGeometryFromWKB", 0, TRUE)
    ELSE CreateGeom("NewGeometryFromWKB", 0, {}, TRUE)

\* func (g *Geometry) AddGeometry(subGeom *Geometry) error: the container g
\* takes a copy of subGeom as its last part.
AddGeometry(g, sub) ==
    LET hg == geoms[g].handle
        hs == geoms[sub].handle
    IN  \E ub \in UBOutcomesShallow({hg}) \cup UBOutcomes({hs}),
           out \in {"ok", "err"} :
        IF ub = "crash" THEN Crash("AddGeometry", g, TRUE)
        ELSE LET ok == hg # NULL /\ hs # NULL /\ out = "ok"
                 nsub == IF hs = NULL THEN 0 ELSE Cardinality(Children(heap, hs))
             IN  /\ ok => /\ Len(heap) + 1 + nsub <= NativeCap
                          /\ Cardinality(Children(heap, hg)) < MaxParts
                 /\ heap' = IF ok THEN NativeNewGeom(heap, hg, nsub) ELSE heap
                 /\ Record([Call("AddGeometry", g, 0, ~ok, NULL,
                                 hg = NULL \/ hs = NULL) EXCEPT !.ctx = TRUE])
                 /\ UNCHANGED <<geoms, feats, cursor, stored, trace, crashed>>

\* ForceToPolygon / ForceToMultiPolygon: no context and no error return. The
\* native function consumes its argument: it returns the same object, or a new
\* one that embeds the argument, or a new one with parts of its own (the
\* rings of the polygons of a multipolygon, say) after releasing the argument.
ForceOutcomes == {"same", "wrap", "replace"}

ForceTo(op, g, owned) ==
    LET hin == geoms[g].handle
    IN  \E ub \in UBOutcomes({hin}), out \in ForceOutcomes,
           nsub \in 0..MaxParts :
        IF ub = "crash" THEN Crash(op, g, FALSE)
        ELSE LET h == IF hin = NULL THEN NULL
                      ELSE IF out = "same" THEN hin ELSE Len(heap) + 1
                 grown == Append(heap, NativeObj("geom", NULL))
             IN  /\ Len(geoms) < GeomCap
                 /\ (hin = NULL \/ out # "replace") => nsub = 0
                 /\ (hin # NULL /\ out # "same") =>
                        Len(heap) + 1 + nsub <= NativeCap
                 /\ heap' = IF hin = NULL \/ out = "same" THEN heap
                            ELSE IF out = "wrap"
                            THEN [grown EXCEPT ![hin].owners = @ \cup {h}]
                            ELSE NativeNewGeom(NativeDestroy(heap, hin), NULL, nsub)
                 /\ geoms' = Append(geoms, Geometry(owned, h, op, NULL))
                 /\ Record(Call(op, g, Len(geoms) + 1, FALSE, NULL, hin = NULL))
                 /\ UNCHANGED <<feats, cursor, stored, trace, crashed>>

ForceToMultiPolygon(g) == ForceTo("ForceToMultiPolygon", g, TRUE)

ForceToPolygon(g) == ForceTo("ForceToPolygon", g, TRUE)

\* SubGeometry: the pointer the container keeps to its i-th sub-geometry,
\* whatever has become of that sub-geometry.
BorrowSub(op, g, i, owned) ==
    LET hin == geoms[g].handle
    IN  \E ub \in UBOutcomesShallow({hin}), out \in {"ok", "err"} :
        IF ub = "crash" THEN Crash(op, g, TRUE)
        ELSE LET kids == IF hin = NULL THEN <<>> ELSE SetToSeq(Children(heap, hin))
                 ok == out = "ok" /\ i < Len(kids)
             IN  /\ ok => Len(geoms) < GeomCap
                 /\ geoms' = IF ok
                             THEN Append(geoms, Geometry(owned, kids[i + 1], op, hin))
                             ELSE geoms
                 /\ Record([Call(op, g, IF ok THEN Len(geoms) + 1 ELSE 0,
                                 ~ok, NULL, hin = NULL) EXCEPT !.ctx = TRUE])
                 /\ UNCHANGED <<heap, feats, cursor, stored, trace, crashed>>

\* SubGeometry returning an owned wrapper.
SubGeometryOwned(g, i) == BorrowSub("SubGeometry", g, i, TRUE)

SubGeometry(g, i) == BorrowSub("SubGeometry", g, i, FALSE)

\* GeometryClose with "g.handle = nil" left out.
GeometryCloseKeepsHandle(g) ==
    LET w == geoms[g]
    IN  /\ w.handle # NULL /\ w.isOwned /\ w.destroys < 2
        /\ heap' = NativeDestroy(heap, w.handle)
        /\ geoms' = [geoms EXCEPT ![g].destroys = @ + 1]
        /\ Record(Call("Geometry.Close", g, 0, FALSE, w.handle, FALSE))
        /\ UNCHANGED <<feats, cursor, stored, trace, crashed>>

\* Close destroying the native object whatever isOwned says.
GeometryCloseDestroysBorrowed(g) ==
    LET w == geoms[g]
    IN  /\ w.handle # NULL
        /\ heap' = NativeDestroy(heap, w.handle)
        /\ geoms' = [geoms EXCEPT ![g].destroys = @ + 1, ![g].handle = NULL]
        /\ Record(Call("Geometry.Close", g, 0, FALSE, w.handle, FALSE))
        /\ UNCHANGED <<feats, cursor, stored, trace, crashed>>

\* func (g *Geometry) Close()
GeometryClose(g) ==
    LET w == geoms[g]
    IN  IF w.handle = NULL
        THEN /\ Record(Call("Geometry.Close", g, 0, FALSE, NULL, FALSE))
             /\ UNCHANGED <<heap, geoms, feats, cursor, stored, trace, crashed>>
        ELSE IF w.isOwned
        THEN \E ub \in UBOutcomes({w.handle}) :
             /\ heap' = NativeDestroy(heap, w.handle)
             /\ geoms' = [geoms EXCEPT ![g].destroys = @ + 1, ![g].handle = NULL]
             /\ Record(Call("Geometry.Close", g, 0, FALSE, w.handle, FALSE))
             /\ crashed' = (ub = "crash")
             /\ UNCHANGED <<feats, cursor, stored, trace>>
        ELSE /\ geoms' = [geoms EXCEPT ![g].handle = NULL]
             /\ Record(Call("Geometry.Close", g, 0, FALSE, NULL, FALSE))
             /\ UNCHANGED <<heap, feats, cursor, stored, trace, crashed>>

\* A caller's &Geometry{} and &Feature{}: zero-valued wrappers.
ZeroGeometry ==
    /\ Len(geoms) < GeomCap
    /\ geoms' = Append(geoms, Geometry(FALSE, NULL, "Geometry{}", NULL))
    /\ Record(Call("Geometry{}", 0, Len(geoms) + 1, FALSE, NULL, FALSE))
    /\ UNCHANGED <<heap, feats, cursor, stored, trace, crashed>>

ZeroFeature ==
    /\ Len(feats) < MaxFeats
    /\ feats' = Append(feats, Feature(NULL))
    /\ Record(Call("Feature{}", 0, Len(feats) + 1, FALSE, NULL, FALSE))
    /\ UNCHANGED <<heap, geoms, cursor, stored, trace, crashed>>

\* ------------------------------------------------ features and the layers
\* type Layer struct { majorObject }: Layer{} (a nil handle) and the layers
\* of the open dataset. The i-th layer of the dataset has the handle -i, not
\* an object of the heap above; stored[i] are the features it holds, each
\* with its fid and the shape of its geometry, and cursor[i] is the fid its
\* next read starts at.
Layers == {[cHandle |-> -i] : i \in 0..Len(stored)}

\* The features of a layer that the current pass has not read.
Unread(layer) ==
    {r \in stored[-layer.cHandle] : r.fid >= cursor[-layer.cHandle]}

\* The entry a layer makes of the native feature hf under the given fid.
StoredAs(hf, fid) ==
    LET kids == SetToSeq(Children(heap, hf))
    IN  [fid |-> fid,
         geom |-> IF kids = <<>> THEN -1
                  ELSE Cardinality(Children(heap, kids[1]))]

\* The fids a layer has not given to a feature.
FreeFids(layer) ==
    {n \in 0..MaxFid : \A r \in stored[-layer.cHandle] : r.fid # n}

\* func (layer Layer) NextFeature() *Feature: the native call hands the caller
\* a new feature, a copy of the next one the layer holds (with its geometry,
\* if it has one), or NULL at the end. featCap, nativeCap: the wrappers and
\* native objects the behaviour may hold.
NextFeatureOn(layer, featCap, nativeCap) ==
    IF layer.cHandle = NULL \/ Unread(layer) = {}
    THEN /\ Record(Call("NextFeature", 0, 0, FALSE, NULL, layer.cHandle = NULL))
         /\ UNCHANGED <<heap, geoms, feats, cursor, stored, trace, crashed>>
    ELSE LET r == CHOOSE x \in Unread(layer) :
                      \A y \in Unread(layer) : x.fid <= y.fid
             h == Len(heap) + 1
             grown == Append(heap, NativeObj("feat", NULL) @@ [fid |-> r.fid])
         IN  /\ Len(feats) < featCap
             /\ Len(heap) + 1 + (IF r.geom >= 0 THEN 1 + r.geom ELSE 0)
                    <= nativeCap
             /\ heap' = IF r.geom >= 0 THEN NativeNewGeom(grown, h, r.geom)
                        ELSE grown
             /\ feats' = Append(feats, Feature(h))
             /\ cursor' = [cursor EXCEPT ![-layer.cHandle] = r.fid + 1]
             /\ Record(Call("NextFeature", 0, Len(feats) + 1, FALSE, NULL, FALSE))
             /\ UNCHANGED <<geoms, stored, trace, crashed>>

NextFeature(layer) == NextFeatureOn(layer, MaxFeats, NativeCap)

\* ResetReading leaving the read cursor where it is.
ResetReadingNoRewind(layer) ==
    /\ Record(Call("ResetReading", 0, 0, FALSE, NULL, layer.cHandle = NULL))
    /\ UNCHANGED <<heap, geoms, feats, cursor, stored, trace, crashed>>

\* func (layer Layer) ResetReading()
ResetReading(layer) ==
    /\ cursor' = IF layer.cHandle = NULL THEN cursor
                 ELSE [cursor EXCEPT ![-layer.cHandle] = 0]
    /\ Record(Call("ResetReading", 0, 0, FALSE, NULL, layer.cHandle = NULL))
    /\ UNCHANGED <<heap, geoms, feats, stored, trace, crashed>>

\* func (f *Feature) Geometry() *Geometry: the pointer the feature keeps to
\* its own geometry (NULL when it has none), never a copy, and whatever has
\* become of that geometry.
BorrowFeatureGeom(op, f, owned) ==
    LET hin == feats[f].handle
    IN  \E ub \in UBOutcomesShallow({hin}) :
        IF ub = "crash" THEN Crash(op, f, FALSE)
        ELSE LET kids == IF hin = NULL THEN <<>> ELSE SetToSeq(Children(heap, hin))
                 h == IF kids = <<>> THEN NULL ELSE kids[1]
             IN  /\ Len(geoms) < GeomCap
                 /\ geoms' = Append(geoms, Geometry(owned, h, op, hin))
                 /\ Record(Call(op, f, Len(geoms) + 1, FALSE, NULL, hin = NULL))
                 /\ UNCHANGED <<heap, feats, cursor, stored, trace, crashed>>

FeatureGeometry(f) == BorrowFeatureGeom("Feature.Geometry", f, FALSE)

\* The heap after the feature hf has released the geometry it held: that
\* geometry and all it holds are released, and hf holds it no more.
GeometryCleared(hf) ==
    LET old == Children(heap, hf)
    IN  [o \in DOMAIN heap |->
            IF o \in old
            THEN [heap[o] EXCEPT !.live = FALSE, !.owners = @ \ {hf}]
            ELSE IF \E c \in old : Under(heap, o, c, Len(heap))
            THEN [heap[o] EXCEPT !.live = FALSE]
            ELSE heap[o]]

\* func (f *Feature) SetGeometry(geom *Geometry) error: the feature takes a
\* copy of geom and releases the geometry it had.
SetGeometry(f, g) ==
    LET hf == feats[f].handle
        hg == geoms[g].handle
    IN  \E ub \in UBOutcomes({hf, hg}), out \in {"ok", "err"} :
        IF ub = "crash" THEN Crash("SetGeometry", f, TRUE)
        ELSE LET ok == hf # NULL /\ out = "ok"
                 nsub == IF hg = NULL THEN 0 ELSE Cardinality(Children(heap, hg))
             IN  /\ (ok /\ hg # NULL) => Len(heap) + 1 + nsub <= NativeCap
                 /\ heap' = IF ~ok THEN heap
                            ELSE IF hg = NULL THEN GeometryCleared(hf)
                            ELSE NativeNewGeom(GeometryCleared(hf), hf, nsub)
                 /\ Record([Call("SetGeometry", f, 0, ~ok, NULL, hf = NULL)
                               EXCEPT !.ctx = TRUE])
                 /\ UNCHANGED <<geoms, feats, cursor, stored, trace, crashed>>

\* func (f *Feature) SetFID(fid int)
SetFID(f, fid) ==
    LET hf == feats[f].handle
    IN  \E ub \in UBOutcomesShallow({hf}) :
        IF ub = "crash" THEN Crash("SetFID", f, FALSE)
        ELSE /\ heap' = IF hf = NULL THEN heap ELSE [heap EXCEPT ![hf].fid = fid]
             /\ Record(Call("SetFID", f, 0, FALSE, NULL, hf = NULL))
             /\ UNCHANGED <<geoms, feats, cursor, stored, trace, crashed>>

\* func (layer Layer) CreateFeature(feat *Feature) error: the layer stores a
\* copy of the feature under a fid it has not used, and writes that fid into
\* the feature.
CreateFeature(layer, f) ==
    LET hf == feats[f].handle
        null == hf = NULL \/ layer.cHandle = NULL
    IN  \E ub \in UBOutcomes({hf}), out \in {"ok", "err"} :
        IF ub = "crash" THEN Crash("CreateFeature", f, TRUE)
        ELSE IF null \/ out = "err"
        THEN /\ Record([Call("CreateFeature", f, 0, TRUE, NULL, null)
                           EXCEPT !.ctx = TRUE])
             /\ UNCHANGED <<heap, geoms, feats, cursor, stored, trace, crashed>>
        ELSE \E fid \in FreeFids(layer) :
             /\ stored' = [stored EXCEPT ![-layer.cHandle] =
                              @ \cup {StoredAs(hf, fid)}]
             /\ heap' = [heap EXCEPT ![hf].fid = fid]
             /\ Record([Call("CreateFeature", f, 0, FALSE, NULL, FALSE)
                           EXCEPT !.ctx = TRUE])
             /\ UNCHANGED <<geoms, feats, cursor, trace, crashed>>

\* func (layer Layer) NewFeature(geom *Geometry) (*Feature, error): a new
\* native feature with a copy of geom (g = 0: a nil *Geometry), stored in
\* the layer; on an error nil, err, else &Feature{hndl}.
NewFeature(layer, g) ==
    LET hg == IF g = 0 THEN NULL ELSE geoms[g].handle
    IN  \E ub \in UBOutcomes({hg}), out \in NativeOutcomes :
        IF ub = "crash" THEN Crash("NewFeature", g, TRUE)
        ELSE IF layer.cHandle = NULL \/ out = "null"
        THEN /\ Record([Call("NewFeature", g, 0, TRUE, NULL,
                             layer.cHandle = NULL) EXCEPT !.ctx = TRUE])
             /\ UNCHANGED <<heap, geoms, feats, cursor, stored, trace, crashed>>
        ELSE \E fid \in FreeFids(layer) :
             LET h == Len(heap) + 1
                 nsub == IF hg = NULL THEN 0 ELSE Cardinality(Children(heap, hg))
                 grown == Append(heap, NativeObj("feat", NULL) @@ [fid |-> fid])
             IN  /\ Len(heap) + 1 + (IF hg = NULL THEN 0 ELSE 1 + nsub)
                        <= NativeCap
                 /\ out = "ok" => Len(feats) < MaxFeats
                 /\ heap' = IF hg = NULL THEN grown
                            ELSE NativeNewGeom(grown, h, nsub)
                 /\ stored' = [stored EXCEPT ![-layer.cHandle] =
                                  @ \cup {[fid |-> fid,
                                           geom |-> IF hg = NULL THEN -1
                                                    ELSE nsub]}]
                 /\ feats' = IF out = "ok" THEN Append(feats, Feature(h))
                             ELSE feats
                 /\ Record([Call("NewFeature", g,
                                 IF out = "ok" THEN Len(feats) + 1 ELSE 0,
                                 out # "ok", NULL, FALSE) EXCEPT !.ctx = TRUE])
                 /\ UNCHANGED <<geoms, cursor, trace, crashed>>

\* func (layer Layer) UpdateFeature(feat *Feature) error: the layer stores a
\* copy of the feature in the place of the one it holds under the same fid,
\* if it holds one.
UpdateFeature(layer, f) ==
    LET hf == feats[f].handle
        null == hf = NULL \/ layer.cHandle = NULL
    IN  \E ub \in UBOutcomes({hf}), out \in {"ok", "err"} :
        IF ub = "crash" THEN Crash("UpdateFeature", f, TRUE)
        ELSE LET ok == /\ ~null /\ out = "ok"
                       /\ \E r \in stored[-layer.cHandle] : r.fid = heap[hf].fid
             IN  /\ stored' =
                      IF ok THEN [stored EXCEPT ![-layer.cHandle] =
                                     {r \in @ : r.fid # heap[hf].fid}
                                         \cup {StoredAs(hf, heap[hf].fid)}]
                      ELSE stored
                 /\ Record([Call("UpdateFeature", f, 0, ~ok, NULL, null)
                               EXCEPT !.ctx = TRUE])
                 /\ UNCHANGED <<heap, geoms, feats, cursor, trace, crashed>>

\* func (layer Layer) DeleteFeature(feat *Feature) error: the layer drops the
\* feature it holds under the fid of feat, if it holds one.
DeleteFeature(layer, f) ==
    LET hf == feats[f].handle
        null == hf = NULL \/ layer.cHandle = NULL
    IN  \E ub \in UBOutcomesShallow({hf}), out \in {"ok", "err"} :
        IF ub = "crash" THEN Crash("DeleteFeature", f, TRUE)
        ELSE LET ok == /\ ~null /\ out = "ok"
                       /\ \E r \in stored[-layer.cHandle] : r.fid = heap[hf].fid
             IN  /\ stored' =
                      IF ok THEN [stored EXCEPT ![-layer.cHandle] =
                                     {r \in @ : r.fid # heap[hf].fid}]
                      ELSE stored
                 /\ Record([Call("DeleteFeature", f, 0, ~ok, NULL, null)
                               EXCEPT !.ctx = TRUE])
                 /\ UNCHANGED <<heap, geoms, feats, cursor, trace, crashed>>

\* func (ds *Dataset) CreateLayer(name, sr, gtype) (Layer, error), on the
\* open dataset: a new layer with no feature; on an error Layer{}, err.
CreateLayer ==
    \E out \in {"ok", "err"} :
        /\ out = "ok" => Len(stored) < LayerCap
        /\ stored' = IF out = "ok" THEN Append(stored, {}) ELSE stored
        /\ cursor' = IF out = "ok" THEN Append(cursor, 0) ELSE cursor
        /\ Record([Call("CreateLayer", 0,
                        IF out = "ok" THEN -(Len(stored) + 1) ELSE NULL,
                        out = "err", NULL, FALSE) EXCEPT !.ctx = TRUE])
        /\ UNCHANGED <<heap, geoms, feats, trace, crashed>>

\* The read position of a layer that has been read to its end.
AtEnd(l) ==
    IF stored[-l] = {} THEN 0
    ELSE 1 + (CHOOSE n \in {r.fid : r \in stored[-l]} :
                 \A r \in stored[-l] : r.fid <= n)

\* func (ds *Dataset) CopyLayer(source Layer, name string) (Layer, error): a
\* new layer holding copies of the features of source, which the native copy
\* rewinds and reads to its end.
CopyLayer(source) ==
    \E out \in {"ok", "err"} :
        LET ok == source.cHandle # NULL /\ out = "ok"
        IN  /\ ok => Len(stored) < LayerCap
            /\ stored' = IF ok THEN Append(stored, stored[-source.cHandle])
                         ELSE stored
            /\ cursor' = IF ok
                         THEN Append([cursor EXCEPT ![-source.cHandle] =
                                         AtEnd(source.cHandle)], 0)
                         ELSE cursor
            /\ Record([Call("CopyLayer", 0,
                            IF ok THEN -(Len(stored) + 1) ELSE NULL,
                            ~ok, NULL, source.cHandle = NULL)
                          EXCEPT !.ctx = TRUE])
            /\ UNCHANGED <<heap, geoms, feats, trace, crashed>>

\* The contents of the layers after the native Polygonize has written to the
\* layer with the handle l: a polygon, of one ring or more, under each of
\* some fids the layer had not used; nothing with a nil handle.
PolygonsWritten(l) ==
    IF l = NULL THEN {stored}
    ELSE {[stored EXCEPT ![-l] = @ \cup {[fid |-> i, geom |-> rings] : i \in S}] :
             S \in SUBSET FreeFids([cHandle |-> l]), rings \in 1..MaxRings}

\* func (band Band) Polygonize(dstLayer Layer) error, as one step.
Polygonize(layer) ==
    \E out \in {"ok", "err"}, written \in PolygonsWritten(layer.cHandle) :
        /\ stored' = written
        /\ Record([Call("Polygonize", 0, 0,
                        layer.cHandle = NULL \/ out = "err", NULL,
                        layer.cHandle = NULL) EXCEPT !.ctx = TRUE])
        /\ UNCHANGED <<heap, geoms, feats, cursor, trace, crashed>>

\* The read positions after a native call that may scan the layer with the
\* handle l to answer (its extent, its feature count): as they were, when
\* the layer has the answer at hand, or with that layer rewound after the
\* scan.
ScanOutcomes(l) ==
    IF l = NULL THEN {cursor} ELSE {cursor, [cursor EXCEPT ![-l] = 0]}

\* The read positions after a native call that reads layers of the dataset
\* (GDALRasterize, GDALVectorTranslate): each layer the call has read, those
\* its switches select, is left at its end; the others are as they were.
SourcesRead ==
    {[i \in DOMAIN cursor |-> IF i \in S THEN AtEnd(-i) ELSE cursor[i]] :
        S \in SUBSET DOMAIN cursor}

\* Rasterize and VectorTranslate (op) as one step, the dataset they return
\* left out: func (ds *Dataset) Rasterize(dstDS, switches, opts ...)
\* (*Dataset, error), and the same of VectorTranslate.
Translate(op) ==
    \E out \in {"ok", "err"}, c \in SourcesRead :
        /\ cursor' = c
        /\ Record([Call(op, 0, 0, out = "err", NULL, FALSE) EXCEPT !.ctx = TRUE])
        /\ UNCHANGED <<heap, geoms, feats, stored, trace, crashed>>

\* func (layer Layer) Bounds() ([4]float64, error), as one step.
LayerBounds(layer) ==
    \E out \in {"ok", "err"}, c \in ScanOutcomes(layer.cHandle) :
        /\ cursor' = c
        /\ Record([Call("Layer.Bounds", 0, 0,
                        layer.cHandle = NULL \/ out = "err", NULL,
                        layer.cHandle = NULL) EXCEPT !.ctx = TRUE])
        /\ UNCHANGED <<heap, geoms, feats, stored, trace, crashed>>

\* func (layer Layer) FeatureCount() (int, error); res: the count returned.
CountReturned(layer, out) ==
    IF layer.cHandle # NULL /\ out = "ok"
    THEN Cardinality(stored[-layer.cHandle]) ELSE 0

FeatureCountAs(layer, out, c) ==
    LET ok == layer.cHandle # NULL /\ out = "ok"
    IN  /\ cursor' = c
        /\ Record([Call("FeatureCount", 0, CountReturned(layer, out),
                        ~ok, NULL, layer.cHandle = NULL)
                      EXCEPT !.ctx = TRUE])
        /\ UNCHANGED <<heap, geoms, feats, stored, trace, crashed>>

FeatureCount(layer) ==
    \E out \in {"ok", "err"}, c \in ScanOutcomes(layer.cHandle) :
        FeatureCountAs(layer, out, c)

\* Feature.Close that also clears the handle of every open view into the
\* feature, as a runtime that tracked its borrows would.
FeatureCloseInvalidatesBorrows(f) ==
    LET w == feats[f]
    IN  IF w.handle = NULL
        THEN /\ Record(Call("Feature.Close", f, 0, FALSE, NULL, FALSE))
             /\ UNCHANGED <<heap, geoms, feats, cursor, stored, trace, crashed>>
        ELSE \E ub \in UBOutcomes({w.handle}) :
             /\ heap' = NativeDestroy(heap, w.handle)
             /\ feats' = [feats EXCEPT ![f].destroys = @ + 1, ![f].handle = NULL]
             /\ geoms' = [k \in DOMAIN geoms |->
                            IF geoms[k].parent = w.handle
                            THEN [geoms[k] EXCEPT !.handle = NULL]
                            ELSE geoms[k]]
             /\ Record(Call("Feature.Close", f, 0, FALSE, w.handle, FALSE))
             /\ crashed' = (ub = "crash")
             /\ UNCHANGED <<cursor, stored, trace>>

\* func (f *Feature) Close()
FeatureClose(f) ==
    LET w == feats[f]
    IN  IF w.handle = NULL
        THEN /\ Record(Call("Feature.Close", f, 0, FALSE, NULL, FALSE))
             /\ UNCHANGED <<heap, geoms, feats, cursor, stored, trace, crashed>>
        ELSE \E ub \in UBOutcomes({w.handle}) :
             /\ heap' = NativeDestroy(heap, w.handle)
             /\ feats' = [feats EXCEPT ![f].destroys = @ + 1, ![f].handle = NULL]
             /\ Record(Call("Feature.Close", f, 0, FALSE, w.handle, FALSE))
             /\ crashed' = (ub = "crash")
             /\ UNCHANGED <<geoms, cursor, stored, trace>>

\* ------------------------------------- accessors without an error return
\* They hand the wrapper's handle to the native function as it is, nil
\* included, and return what it answers; outcomes: what the native function
\* may do, given what it reads.
PlainAccessor(op, recv, h, outcomes) ==
    \E ub \in outcomes :
        IF ub = "crash" THEN Crash(op, recv, FALSE)
        ELSE /\ Record(Call(op, recv, 0, FALSE, NULL, h = NULL))
             /\ UNCHANGED <<heap, geoms, feats, cursor, stored, trace, crashed>>

LayerName(layer) ==
    PlainAccessor("Layer.Name", 0, layer.cHandle,
                  UBOutcomesShallow({layer.cHandle}))

LayerType(layer) ==
    PlainAccessor("Layer.Type", 0, layer.cHandle,
                  UBOutcomesShallow({layer.cHandle}))

GeometryArea(g) ==
    PlainAccessor("Geometry.Area", g, geoms[g].handle,
                  UBOutcomes({geoms[g].handle}))

GeometryCount(g) ==
    PlainAccessor("Geometry.GeometryCount", g, geoms[g].handle,
                  UBOutcomesShallow({geoms[g].handle}))

GeometryType(g) ==
    PlainAccessor("Geometry.Type", g, geoms[g].handle,
                  UBOutcomesShallow({geoms[g].handle}))

GeometryEmpty(g) ==
    PlainAccessor("Geometry.Empty", g, geoms[g].handle,
                  UBOutcomes({geoms[g].handle}))

GeometryValid(g) ==
    PlainAccessor("Geometry.Valid", g, geoms[g].handle,
                  UBOutcomes({geoms[g].handle}))

\* func (g *Geometry) SetSpatialRef(sr *SpatialRef): the native call
\* assigns the reference to the geometry and to each of its parts.
SetSpatialRef(g) ==
    PlainAccessor("SetSpatialRef", g, geoms[g].handle,
                  UBOutcomes({geoms[g].handle}))

\* func (f *Feature) SetGeometryColumnName(name string)
SetGeometryColumnName(f) ==
    PlainAccessor("SetGeometryColumnName", f, feats[f].handle,
                  UBOutcomesShallow({feats[f].handle}))

\* Reproject and Transform: the native call rewrites the coordinates of the
\* geometry and of its parts in place, in an error context; the wrapper and
\* the ownership of the native objects are as before.
TransformInPlace(op, g) ==
    LET h == geoms[g].handle
    IN  \E ub \in UBOutcomes({h}), out \in {"ok", "err"} :
        IF ub = "crash" THEN Crash(op, g, TRUE)
        ELSE /\ Record([Call(op, g, 0, h = NULL \/ out = "err", NULL, h = NULL)
                           EXCEPT !.ctx = TRUE])
             /\ UNCHANGED <<heap, geoms, feats, cursor, stored, trace, crashed>>

Reproject(g) == TransformInPlace("Reproject", g)

Transform(g) == TransformInPlace("Transform", g)

\* The native calls of Fields() on the feature's handle.
FeatureFields(f) ==
    PlainAccessor("Feature.Fields", f, feats[f].handle,
                  UBOutcomesShallow({feats[f].handle}))

\* ------------------------------------------------------------ field values
\* A 64-bit integer (Go int, int64, C.longlong) is four 16-bit limbs, the
\* most significant first; a C.int is two.
Limb == 2^16

I64(a, b, c, d) == <<a, b, c, d>>

\* C.int(v): the low 32 bits.
CInt(v) == <<v[3], v[4]>>

\* int(c), int64(c) of a C int: sign extension.
FromCInt(c) ==
    IF c[1] >= Limb \div 2 THEN <<Limb - 1, Limb - 1, c[1], c[2]>>
    ELSE <<0, 0, c[1], c[2]>>

\* C.CString and the native string functions: the bytes before the first NUL.
RECURSIVE CStr(_)
CStr(str) ==
    IF str = <<>> \/ Head(str) = 0 THEN <<>>
    ELSE <<Head(str)>> \o CStr(Tail(str))

\* The value of an "any": its dynamic type and the value; nil has neither.
AnyVal(t, v) == [t |-> t, v |-> v]

NilAny == AnyVal("nil", <<>>)

\* == on two values of type any.
GoEqual(a, b) == a.t = b.t /\ a.v = b.v

\* type FieldValueType interface { int | int64 | ... }
FieldValueType ==
    {"int", "int64", "float64", "string", "[]byte", "time.Time",
     "[]int", "[]int64", "[]float64", "[]string"}

\* The switch of Fields() with its default case giving String, not Unknown.
FieldTypeOfDefaultString(ntype) ==
    CASE ntype = "OFTInteger" -> "FTInt"
      [] ntype = "OFTInteger64" -> "FTInt64"
      [] ntype = "OFTReal" -> "FTReal"
      [] ntype = "OFTString" -> "FTString"
      [] ntype = "OFTDate" -> "FTDate"
      [] ntype = "OFTTime" -> "FTTime"
      [] ntype = "OFTDateTime" -> "FTDateTime"
      [] ntype = "OFTIntegerList" -> "FTIntList"
      [] ntype = "OFTInteger64List" -> "FTInt64List"
      [] ntype = "OFTRealList" -> "FTRealList"
      [] ntype = "OFTStringList" -> "FTStringList"
      [] ntype = "OFTBinary" -> "FTBinary"
      [] OTHER -> "FTString"

\* The cases of the switch of Fields() on the native field type.
FieldTypeOf(ntype) ==
    CASE ntype = "OFTInteger" -> "FTInt"
      [] ntype = "OFTInteger64" -> "FTInt64"
      [] ntype = "OFTReal" -> "FTReal"
      [] ntype = "OFTString" -> "FTString"
      [] ntype = "OFTDate" -> "FTDate"
      [] ntype = "OFTTime" -> "FTTime"
      [] ntype = "OFTDateTime" -> "FTDateTime"
      [] ntype = "OFTIntegerList" -> "FTIntList"
      [] ntype = "OFTInteger64List" -> "FTInt64List"
      [] ntype = "OFTRealList" -> "FTRealList"
      [] ntype = "OFTStringList" -> "FTStringList"
      [] ntype = "OFTBinary" -> "FTBinary"
      [] OTHER -> "FTUnknown"

\* The Go type each case of the switch of SetValue asserts the value to be.
GoTypeOf(ftype) ==
    CASE ftype = "FTInt" -> "int"
      [] ftype = "FTInt64" -> "int64"
      [] ftype = "FTReal" -> "float64"
      [] ftype = "FTString" -> "string"
      [] ftype \in {"FTDate", "FTTime", "FTDateTime"} -> "time.Time"
      [] ftype = "FTIntList" -> "[]int"
      [] ftype = "FTInt64List" -> "[]int64"
      [] ftype = "FTRealList" -> "[]float64"
      [] ftype = "FTStringList" -> "[]string"
      [] ftype = "FTBinary" -> "[]byte"
      [] OTHER -> "none"

\* time.Time{}: January 1, year 1, 00:00:00.000000000 UTC.
\* A time is <<year, month, day, hour, minute, second, nanosecond, zone>>,
\* zone 0 being UTC; the year is a Go int (it may be negative), the other
\* components are small naturals.
ZeroTime == <<I64(0, 0, 0, 1), 1, 1, 0, 0, 0, 0, 0>>

\* The zero value of each type ("var empty FVT").
ZeroOf(T) ==
    CASE T \in {"int", "int64"} -> I64(0, 0, 0, 0)
      [] T = "float64" -> <<0>>
      [] T = "time.Time" -> ZeroTime
      [] OTHER -> <<>>

\* The values SetValue is called with.  A float64 is <<tenths>>.
IntSamples ==
    {I64(0, 0, 0, 42), I64(Limb - 1, Limb - 1, Limb - 1, Limb - 1),
     I64(0, 0, Limb \div 2, 0)}

StringSamples == {<<>>, <<97, 98>>, <<97, 0, 98>>}

TimeSamples ==
    {<<I64(0, 0, 0, 2021), 3, 4, 5, 6, 7, 0, 0>>,
     <<I64(0, 0, 0, 2021), 3, 4, 5, 6, 7, 500, 0>>,
     <<I64(0, 0, 0, 2021), 3, 4, 5, 6, 7, 0, 1>>,
     <<I64(Limb - 1, Limb - 1, Limb - 1, Limb - 1), 3, 4, 5, 6, 7, 0, 0>>,
     <<I64(0, 0, 0, 40000), 3, 4, 5, 6, 7, 0, 0>>}

Values(T) ==
    CASE T \in {"int", "int64"} -> IntSamples
      [] T = "float64" -> {<<15>>, <<-25>>}
      [] T = "string" -> StringSamples
      [] T = "time.Time" -> TimeSamples
      [] T = "[]byte" -> {<<>>, <<1, 255>>}
      [] T \in {"[]int", "[]int64"} ->
            {<<>>, <<I64(0, 0, 0, 42)>>, <<I64(0, 0, 0, 42), I64(0, 1, 0, 7)>>}
      [] T = "[]float64" -> {<<>>, <<<<15>>, <<-25>>>>}
      [] T = "[]string" -> {<<>>, <<<<97>>, <<97, 0, 98>>>>}

\* ------------------------------------------------ the native feature's fields
NativeTypes ==
    {"OFTInteger", "OFTInteger64", "OFTReal", "OFTString", "OFTDate",
     "OFTTime", "OFTDateTime", "OFTIntegerList", "OFTInteger64List",
     "OFTRealList", "OFTStringList", "OFTBinary", "OFTWideString"}

\* The layer definitions the feature under test is created with.
Schemas ==
    {<<>>}
    \cup {<<nt>> : nt \in NativeTypes}
    \cup {<<"OFTInteger", "OFTString">>, <<"OFTInteger64", "OFTDateTime">>}

\* What the native getters return for a field that was never set.
NativeUnset(ntype) ==
    [set |-> FALSE,
     v |-> CASE ntype = "OFTInteger" -> <<0, 0>>
             [] ntype = "OFTInteger64" -> I64(0, 0, 0, 0)
             [] ntype = "OFTReal" -> <<0>>
             [] ntype \in {"OFTDate", "OFTTime", "OFTDateTime"} ->
                    <<<<0, 0>>, 0, 0, 0, 0, 0, 0>>
             [] OTHER -> <<>>]

\* cIntArray: each element converted to C.int.
cIntArray(in) == [i \in DOMAIN in |-> CInt(in[i])]

\* cLongArray: each element converted to C.longlong.
cLongArray(in) == [i \in DOMAIN in |-> in[i]]

\* cDoubleArray: each element converted to C.double.
cDoubleArray(in) == [i \in DOMAIN in |-> in[i]]

\* sliceToCStringArray: each element converted to a C string.
sliceToCStringArray(in) == [i \in DOMAIN in |-> CStr(in[i])]

\* "&x[0]" of an empty slice panics (index fout of range).
PanicsOnEmpty(ftype) == ftype \in {"FTIntList", "FTInt64List", "FTRealList", "FTBinary"}

\* The native date and time keeps its year in 16 bits: a write whose year,
\* a C int, is not a signed 16-bit number is refused, with a diagnostic that
\* SetValue does not collect, and leaves the field as it was.
YearStored(c) ==
    \/ c[1] = 0 /\ c[2] < Limb \div 2
    \/ c[1] = Limb - 1 /\ c[2] >= Limb \div 2

\* The native write of each case of SetValue: what the field holds after it,
\* old being what it held before. A date and time is stored as <<year,
\* month, day, hour, minute, second, time-zone flag>>, each component passed
\* as a C.int (C.int(timeValue.Year()) and so on), the flag always C.int(1).
NativeWrite(ftype, value, old) ==
    IF ftype \in {"FTDate", "FTTime", "FTDateTime"} /\ ~YearStored(CInt(value[1]))
    THEN old
    ELSE
    [set |-> TRUE,
     v |-> CASE ftype = "FTInt" -> CInt(value)
             [] ftype = "FTInt64" -> value
             [] ftype = "FTReal" -> value
             [] ftype = "FTString" -> CStr(value)
             [] ftype \in {"FTDate", "FTTime", "FTDateTime"} ->
                    <<CInt(value[1])>> \o SubSeq(value, 2, 6) \o <<1>>
             [] ftype = "FTIntList" -> cIntArray(value)
             [] ftype = "FTInt64List" -> cLongArray(value)
             [] ftype = "FTRealList" -> cDoubleArray(value)
             [] ftype = "FTStringList" -> sliceToCStringArray(value)
             [] ftype = "FTBinary" -> value]

\* var year int; (*C.int)(unsafe.Pointer(&year)): the native call writes a
\* C int into the low half of a Go int that is zero, so the Go int is the C
\* int zero-extended (a negative year comes back as 2^32 + year).
IntThroughCIntPointer(c) == I64(0, 0, c[1], c[2])

\* getFieldAsDateTime: time.Date(year, month, day, hour, minute, second, 0,
\* time.UTC), the time-zone flag read and not used; or time.Time{} when the
\* native call returns 0.
getFieldAsDateTime(nf) ==
    IF nf.set
    THEN <<IntThroughCIntPointer(nf.v[1])>> \o SubSeq(nf.v, 2, 6) \o <<0, 0>>
    ELSE ZeroTime

\* cIntArrayToSlice: each C int converted to int.
cIntArrayToSlice(in) == [i \in DOMAIN in |-> FromCInt(in[i])]

\* Fields() decoding an Integer field as int64 (and nothing else).
FieldValIntAsInt64(ntype, nf) ==
    CASE ntype = "OFTInteger" -> AnyVal("int64", FromCInt(nf.v))
      [] ntype = "OFTInteger64" -> AnyVal("int64", nf.v)
      [] OTHER -> NilAny

\* The payload Fields() decodes for a field of native type ntype.
FieldVal(ntype, nf) ==
    CASE ntype = "OFTInteger" -> AnyVal("int", FromCInt(nf.v))
      [] ntype = "OFTInteger64" -> AnyVal("int64", nf.v)
      [] ntype = "OFTReal" -> AnyVal("float64", nf.v)
      [] ntype = "OFTString" -> AnyVal("string", nf.v)
      [] ntype \in {"OFTDate", "OFTTime", "OFTDateTime"} ->
            AnyVal("time.Time", getFieldAsDateTime(nf))
      [] ntype = "OFTIntegerList" -> AnyVal("[]int", cIntArrayToSlice(nf.v))
      [] ntype = "OFTInteger64List" -> AnyVal("[]int64", nf.v)
      [] ntype = "OFTRealList" -> AnyVal("[]float64", nf.v)
      [] ntype = "OFTStringList" -> AnyVal("[]string", nf.v)
      [] ntype = "OFTBinary" -> AnyVal("[]byte", nf.v)
      [] OTHER -> NilAny

\* type Field struct { index; name; isSet; ftype; val }
Field(index, name, isSet, ftype, val) ==
    [index |-> index, name |-> name, isSet |-> isSet, ftype |-> ftype, val |-> val]

FieldName(fid) == <<102, 48 + fid>>

\* A field call and its results.
FCall(op, T, err, val, wrote) ==
    [op |-> op, T |-> T, err |-> err, val |-> val, wrote |-> wrote,
     panic |-> FALSE, srcNil |-> FALSE, isNil |-> FALSE]

NoFCall == FCall("none", "none", FALSE, NilAny, FALSE)

NoPending == [index |-> -1, val |-> NilAny]

InitF ==
    /\ native = [i \in DOMAIN schema |-> NativeUnset(schema[i])]
    /\ fopen = TRUE
    /\ flds = <<>>
    /\ held = <<>>
    /\ fout = NoFCall
    /\ pending = NoPending

\* C.OGR_F_GetFieldCount(f.handle): the number of attributes of the layer
\* definition; 0 for the nil handle of a closed feature.
FieldCount == IF fopen THEN Len(schema) ELSE 0

\* func (f *Feature) Fields() Fields; isNil: the result is the nil slice.
Fields ==
    /\ flds' = IF fopen
               THEN [i \in DOMAIN schema |->
                        Field(i - 1, FieldName(i - 1), native[i].set,
                              FieldTypeOf(schema[i]), FieldVal(schema[i], native[i]))]
               ELSE <<>>
    /\ fout' = [FCall("Fields", "none", FALSE, NilAny, FALSE)
                   EXCEPT !.isNil = FieldCount = 0]
    /\ UNCHANGED <<schema, native, fopen, held, pending>>

\* func (flds Fields) GetByIndex(index int) (*Field, error): a pointer to a
\* copy of the entry.
GetByIndex(index) ==
    LET found == {i \in DOMAIN flds : flds[i].index = index}
    IN  /\ held' = IF found = {} THEN held
                   ELSE <<flds[CHOOSE i \in found : \A j \in found : i <= j]>>
        /\ fout' = FCall("GetByIndex", "none", found = {}, NilAny, FALSE)
        /\ UNCHANGED <<schema, native, fopen, flds, pending>>

\* "for _, field := range flds { if <match> { return &field, nil } }": the
\* first entry that matches, copied into the loop variable; <<>> when none
\* does. found: the positions of the entries of S that match.
FirstMatch(S, found) ==
    IF found = {} THEN <<>>
    ELSE <<S[CHOOSE i \in found : \A j \in found : i <= j]>>

\* The names GetByName is called with: those of the first two fields, and
\* one no field has.
FieldNames == {FieldName(0), FieldName(1), <<102, 111, 111>>}

\* func (flds Fields) GetByName(name string) (*Field, error): a pointer to a
\* copy of the entry.
GetByName(name) ==
    LET found == FirstMatch(flds, {i \in DOMAIN flds : flds[i].name = name})
    IN  /\ held' = IF found = <<>> THEN held ELSE found
        /\ fout' = FCall("GetByName", "none", found = <<>>, NilAny, FALSE)
        /\ UNCHANGED <<schema, native, fopen, flds, pending>>

\* A type assertion that always succeeds (with the zero value when the types
\* differ).
AnyAsUnchecked(val, T) ==
    [ok |-> TRUE, v |-> IF val.t = T THEN val.v ELSE ZeroOf(T)]

\* value, ok := x.(T)
AnyAs(val, T) ==
    [ok |-> val.t = T, v |-> IF val.t = T THEN val.v ELSE ZeroOf(T)]

\* func (fvq *FieldValueQuerier[FVT]) GetValue(field *Field) (FVT, error)
GetValue(T) ==
    LET a == AnyAs(held[1].val, T)
    IN  /\ held # <<>>
        /\ fout' = FCall("GetValue", T, ~a.ok, AnyVal(T, a.v), FALSE)
        /\ UNCHANGED <<schema, native, fopen, flds, held, pending>>

\* SetValue without the two checks of the source feature.
SetValueUnguarded(srcNil, T, value) ==
    LET field == held[1]
        a == AnyAs(AnyVal(T, value), GoTypeOf(field.ftype))
        call(err, wrote) ==
            [FCall("SetValue", T, err, AnyVal(T, value), wrote)
                EXCEPT !.srcNil = srcNil]
        fail == /\ fout' = call(TRUE, FALSE)
                /\ UNCHANGED <<schema, native, fopen, flds, held, pending>>
    IN  /\ held # <<>>
        /\ IF field.ftype = "FTUnknown" \/ ~a.ok THEN fail
           ELSE IF PanicsOnEmpty(field.ftype) /\ a.v = <<>>
           THEN /\ fout' = [call(FALSE, FALSE) EXCEPT !.panic = TRUE]
                /\ UNCHANGED <<schema, native, fopen, flds, held, pending>>
           ELSE /\ native' = [native EXCEPT ![field.index + 1] =
                                 NativeWrite(field.ftype, a.v, @)]
                /\ held' = <<[field EXCEPT !.isSet = native'[field.index + 1].set,
                                           !.val = AnyVal(T, value)]>>
                /\ pending' = [index |-> field.index, val |-> AnyVal(T, value)]
                /\ fout' = call(FALSE, TRUE)
                /\ UNCHANGED <<schema, fopen, flds>>

\* SetValue without the default case of its switch: on a kind it does not
\* handle it falls through to the update of the Field.
SetValueNoDefault(srcNil, T, value) ==
    LET field == held[1]
        a == AnyAs(AnyVal(T, value), GoTypeOf(field.ftype))
        call(err, wrote) ==
            [FCall("SetValue", T, err, AnyVal(T, value), wrote)
                EXCEPT !.srcNil = srcNil]
        fail == /\ fout' = call(TRUE, FALSE)
                /\ UNCHANGED <<schema, native, fopen, flds, held, pending>>
    IN  /\ held # <<>>
        /\ IF srcNil \/ ~fopen THEN fail
           ELSE IF field.ftype = "FTUnknown"
           THEN /\ held' = <<[field EXCEPT !.isSet = native[field.index + 1].set,
                                           !.val = AnyVal(T, value)]>>
                /\ fout' = call(FALSE, FALSE)
                /\ UNCHANGED <<schema, native, fopen, flds, pending>>
           ELSE IF ~a.ok THEN fail
           ELSE IF PanicsOnEmpty(field.ftype) /\ a.v = <<>>
           THEN /\ fout' = [call(FALSE, FALSE) EXCEPT !.panic = TRUE]
                /\ UNCHANGED <<schema, native, fopen, flds, held, pending>>
           ELSE /\ native' = [native EXCEPT ![field.index + 1] =
                                 NativeWrite(field.ftype, a.v, @)]
                /\ held' = <<[field EXCEPT !.isSet = native'[field.index + 1].set,
                                           !.val = AnyVal(T, value)]>>
                /\ pending' = [index |-> field.index, val |-> AnyVal(T, value)]
                /\ fout' = call(FALSE, TRUE)
                /\ UNCHANGED <<schema, fopen, flds>>

\* func (fvq *FieldValueQuerier[FV]) SetValue(field *Field, value FV) error
\* srcNil: the querier was made by NewFieldValueQuerier[FV](nil). After the
\* native write, field.isSet is what C.OGR_F_IsFieldSet answers.
SetValue(srcNil, T, value) ==
    LET field == held[1]
        a == AnyAs(AnyVal(T, value), GoTypeOf(field.ftype))
        call(err, wrote) ==
            [FCall("SetValue", T, err, AnyVal(T, value), wrote)
                EXCEPT !.srcNil = srcNil]
        fail == /\ fout' = call(TRUE, FALSE)
                /\ UNCHANGED <<schema, native, fopen, flds, held, pending>>
    IN  /\ held # <<>>
        /\ IF srcNil \/ ~fopen THEN fail
           ELSE IF field.ftype = "FTUnknown" \/ ~a.ok THEN fail
           ELSE IF PanicsOnEmpty(field.ftype) /\ a.v = <<>>
           THEN /\ fout' = [call(FALSE, FALSE) EXCEPT !.panic = TRUE]
                /\ UNCHANGED <<schema, native, fopen, flds, held, pending>>
           ELSE /\ native' = [native EXCEPT ![field.index + 1] =
                                 NativeWrite(field.ftype, a.v, @)]
                /\ held' = <<[field EXCEPT !.isSet = native'[field.index + 1].set,
                                           !.val = AnyVal(T, value)]>>
                /\ pending' = [index |-> field.index, val |-> AnyVal(T, value)]
                /\ fout' = call(FALSE, TRUE)
                /\ UNCHANGED <<schema, fopen, flds>>

\* func (f *Feature) Close(), on the feature under test.
CloseFieldsFeature ==
    /\ fopen
    /\ fopen' = FALSE
    /\ fout' = FCall("Feature.Close", "none", FALSE, NilAny, FALSE)
    /\ pending' = NoPending
    /\ UNCHANGED <<schema, native, flds, held>>

\* ------------------------------------------------------- error contexts
\* The goroutines (each locked to its thread during a cgo call) that call
\* the API concurrently.
Threads == {1, 2}

Severities == {"Debug", "Warning", "Error"}

SevRank(sev) == CASE sev = "Debug" -> 1 [] sev = "Warning" -> 2 [] sev = "Error" -> 3

\* The default threshold: the least severity that makes close() fail.
Threshold == "Error"

Event(sev, from, synth) == [sev |-> sev, from |-> from, synth |-> synth]

\* createCGOContext(configs, errorHandler): a new context with no events.
createCGOContext(t, custom) ==
    [owner |-> t, custom |-> custom, events |-> <<>>, calls |-> 0]

Failing(events) ==
    \E i \in DOMAIN events : SevRank(events[i].sev) >= SevRank(Threshold)

\* cgc.close(): the events go to the handler in order, and the result is an
\* error when one of them reaches the threshold.
cgcClose(ctx) == [err |-> Failing(ctx.events), delivered |-> ctx.events]

IdleCall ==
    [op |-> "none", done |-> FALSE, err |-> FALSE, custom |-> FALSE,
     emitted |-> <<>>, delivered |-> <<>>, nullRet |-> FALSE, args |-> <<>>]

Idle == [op |-> "none", at |-> "idle", sr |-> FALSE]

InitC ==
    /\ pc = [t \in Threads |-> Idle]
    /\ ctxs = [t \in Threads |-> <<>>]
    /\ calls = [t \in Threads |-> IdleCall]

\* The start of an operation up to its native call: the context is created
\* and handed to the C wrapper.
Begin(t, op, custom, sr) ==
    /\ pc[t].at = "idle"
    /\ pc' = [pc EXCEPT ![t] = [op |-> op, at |-> "native", sr |-> sr]]
    /\ ctxs' = [ctxs EXCEPT ![t] = Append(@, createCGOContext(t, custom))]
    /\ calls' = [calls EXCEPT ![t] = [IdleCall EXCEPT !.op = op, !.custom = custom]]

\* cgc := createCGOContext(gopts.config, gopts.errorHandler) of Rasterize
RasterizeBegin(t, custom) == Begin(t, "Rasterize", custom, FALSE)

\* cgc := createCGOContext(nil, popt.errorHandler) of Polygonize
PolygonizeBegin(t, custom) == Begin(t, "Polygonize", custom, FALSE)

\* cgc := createCGOContext(nil, bo.errorHandler) of Bounds; sr: bo.sr != nil
BoundsBegin(t, custom, sr) == Begin(t, "Bounds", custom, sr)

\* The native library reports a diagnostic on thread t: it goes to the
\* context installed last on that thread.
NativeEmit(t, sev) ==
    /\ pc[t].at = "native"
    /\ Len(calls[t].emitted) < MaxEvents
    /\ ctxs' = [ctxs EXCEPT ![t][Len(ctxs[t])].events =
                   Append(@, Event(sev, t, FALSE))]
    /\ calls' = [calls EXCEPT ![t].emitted = Append(@, sev)]
    /\ UNCHANGED pc

\* The native call returns to the C wrapper, which reports a failure of its
\* own when the call failed without an error diagnostic.
NativeReturn(t, failed) ==
    LET top == Len(ctxs[t])
        silent == failed /\ ~Failing(ctxs[t][top].events)
    IN  /\ pc[t].at = "native"
        /\ pc' = [pc EXCEPT ![t].at = "returned"]
        /\ ctxs' = [ctxs EXCEPT ![t][top] =
                       [@ EXCEPT !.calls = @ + 1,
                                 !.events = IF silent
                                            THEN Append(@, Event("Error", t, TRUE))
                                            ELSE @]]
        /\ calls' = [calls EXCEPT ![t].nullRet = failed]

\* The end of an operation from cgc.close() on: the context is closed and
\* its error, if any, returned.
End(t, op, checked) ==
    LET top == Len(ctxs[t])
        r == cgcClose(ctxs[t][top])
    IN  /\ pc[t].at = "returned" /\ pc[t].op = op
        /\ ctxs' = [ctxs EXCEPT ![t] = SubSeq(@, 1, top - 1)]
        /\ calls' = [calls EXCEPT ![t].done = TRUE,
                                  ![t].err = checked /\ r.err,
                                  ![t].delivered = IF calls[t].custom
                                                   THEN r.delivered ELSE <<>>]
        /\ pc' = [pc EXCEPT ![t] = Idle]

\* Rasterize returning the dataset whatever close() said.
RasterizeEndUnchecked(t) ==
    /\ End(t, "Rasterize", FALSE)
    /\ cursor' \in SourcesRead
    /\ stored' = stored

\* Rasterize after its native call, which has read layers of ds:
\* if err := cgc.close(); err != nil { return nil, err }; return &Dataset{...}
RasterizeEnd(t) ==
    /\ End(t, "Rasterize", TRUE)
    /\ cursor' \in SourcesRead
    /\ stored' = stored

\* VectorTranslate after its native call, which has read layers of ds:
\* if err := cgc.close(); err != nil { return nil, err }; return &Dataset{...}
VectorTranslateEnd(t) ==
    /\ End(t, "VectorTranslate", TRUE)
    /\ cursor' \in SourcesRead
    /\ stored' = stored

\* return cgc.close(), after the native call has written its polygons to
\* dstLayer (layer).
PolygonizeEnd(t, layer) ==
    /\ End(t, "Polygonize", TRUE)
    /\ stored' \in PolygonsWritten(layer.cHandle)
    /\ cursor' = cursor

\* Bounds after the native call, which may have scanned the layer: close(),
\* then return, unless a target spatial reference was given and close()
\* reported no error.
BoundsClose(t, layer) ==
    LET top == Len(ctxs[t])
        r == cgcClose(ctxs[t][top])
    IN  /\ pc[t].at = "returned" /\ pc[t].op = "Bounds"
        /\ cursor' \in ScanOutcomes(layer.cHandle)
        /\ stored' = stored
        /\ ctxs' = [ctxs EXCEPT ![t] = SubSeq(@, 1, top - 1)]
        /\ calls' = [calls EXCEPT ![t].done = TRUE,
                                  ![t].err = r.err,
                                  ![t].delivered = IF calls[t].custom
                                                   THEN r.delivered ELSE <<>>]
        /\ pc' = [pc EXCEPT ![t] = IF pc[t].sr /\ ~r.err
                                   THEN [op |-> "Bounds", at |-> "closed", sr |-> TRUE]
                                   ELSE Idle]

\* Bounds calling reprojectBounds while its own context is still open.
BoundsReprojectBeforeClose(t) ==
    /\ pc[t].at = "returned" /\ pc[t].op = "Bounds" /\ pc[t].sr
    /\ pc' = [pc EXCEPT ![t] = [op |-> "reprojectBounds", at |-> "helper", sr |-> FALSE]]
    /\ calls' = [calls EXCEPT ![t] = [IdleCall EXCEPT !.op = "reprojectBounds"]]
    /\ UNCHANGED ctxs

\* bnds, err := reprojectBounds(bnds, sr, bo.sr): Bounds, its own context
\* closed without an error, calls the helper. What the helper does is not
\* part of this module: the thread is in it until it returns.
BoundsReproject(t) ==
    /\ pc[t].at = "closed" /\ pc[t].op = "Bounds"
    /\ pc' = [pc EXCEPT ![t] = [op |-> "reprojectBounds", at |-> "helper", sr |-> FALSE]]
    /\ calls' = [calls EXCEPT ![t] = [IdleCall EXCEPT !.op = "reprojectBounds"]]
    /\ UNCHANGED ctxs

\* The helper returns, with an error (failed) or without:
\* if err != nil { return [4]float64{}, err }; return bnds, nil
BoundsReprojectEnd(t, failed) ==
    /\ pc[t].at = "helper" /\ pc[t].op = "reprojectBounds"
    /\ pc' = [pc EXCEPT ![t] = Idle]
    /\ calls' = [calls EXCEPT ![t].done = TRUE, ![t].err = failed]
    /\ UNCHANGED ctxs

\* ---------------------------------------------------- RasterizeGeometry
\* The options of a call, each possibly absent: opt.bands as the Bands option
\* left it, the band numbers n, .., 1 (the last band first, so that the list
\* differs from the default), and opt.values, 0.5, 1.5, ... A float64 is
\* <<tenths>>.
BandsOption(n) == [i \in 1..n |-> I64(0, 0, 0, n + 1 - i)]

ValuesOption(m) == [i \in 1..m |-> <<10 * i - 5>>]

\* The default band list numbered from 0, as Dataset.Bands() is indexed.
DefaultBandsFromZero(bands, dsBands) ==
    IF Len(bands) = 0 THEN [i \in 1..dsBands |-> I64(0, 0, 0, i - 1)] ELSE bands

\* "if len(opt.bands) == 0": all the bands of the dataset, numbered from 1.
DefaultBands(bands, dsBands) ==
    IF Len(bands) = 0 THEN [i \in 1..dsBands |-> I64(0, 0, 0, i)] ELSE bands

\* "if len(opt.values) == 0": a 0 for each band; and a single value is
\* repeated for each band after the first.
DefaultValues(values, bands) ==
    LET zeros == IF Len(values) = 0 THEN [i \in 1..Len(bands) |-> <<0>>]
                 ELSE values
    IN  IF Len(zeros) = 1 /\ Len(zeros) # Len(bands)
        THEN zeros \o [i \in 1..(Len(bands) - 1) |-> zeros[1]]
        ELSE zeros

\* The call of RasterizeGeometry up to its native call. The call's args
\* record what was asked (bands of the dataset, bands and values named), the
\* two lists as compared and as passed, whether a context was created (ctx)
\* and whether the call panicked.
RasterizeGeometryStart(t, custom, dsBands, nbands, nvalues, checked) ==
    LET bands == DefaultBands(BandsOption(nbands), dsBands)
        values == DefaultValues(ValuesOption(nvalues), bands)
        c == [IdleCall EXCEPT !.op = "RasterizeGeometry", !.custom = custom,
                              !.args = [asked |-> <<dsBands, nbands, nvalues>>,
                                        bands |-> bands, values |-> values,
                                        ctx |-> FALSE, panic |-> FALSE]]
    IN  /\ pc[t].at = "idle"
        /\ IF checked /\ Len(values) # Len(bands)
           THEN /\ calls' = [calls EXCEPT ![t] = [c EXCEPT !.done = TRUE, !.err = TRUE]]
                /\ UNCHANGED <<pc, ctxs>>
           ELSE IF Len(bands) = 0
           THEN /\ pc' = [pc EXCEPT ![t] = [op |-> "RasterizeGeometry",
                                            at |-> "panicked", sr |-> FALSE]]
                /\ ctxs' = [ctxs EXCEPT ![t] = Append(@, createCGOContext(t, custom))]
                /\ calls' = [calls EXCEPT ![t] =
                                [c EXCEPT !.done = TRUE, !.args.ctx = TRUE,
                                          !.args.panic = TRUE]]
           ELSE /\ pc' = [pc EXCEPT ![t] = [op |-> "RasterizeGeometry",
                                            at |-> "native", sr |-> FALSE]]
                /\ ctxs' = [ctxs EXCEPT ![t] = Append(@, createCGOContext(t, custom))]
                /\ calls' = [calls EXCEPT ![t] =
                                [c EXCEPT !.args.ctx = TRUE,
                                          !.args.bands = cIntArray(bands),
                                          !.args.values = cDoubleArray(values)]]

\* RasterizeGeometry without the comparison of the two lengths.
RasterizeGeometryBeginUnchecked(t, custom, dsBands, nbands, nvalues) ==
    RasterizeGeometryStart(t, custom, dsBands, nbands, nvalues, FALSE)

\* func (ds *Dataset) RasterizeGeometry(g *Geometry, opts ...) error, up to
\* C.godalRasterizeGeometry: it returns an error when the lengths differ;
\* else it creates the context and converts the two lists for the native
\* call; the conversion of an empty list panics, which ends the call with
\* its context open.
RasterizeGeometryBegin(t, custom, dsBands, nbands, nvalues) ==
    RasterizeGeometryStart(t, custom, dsBands, nbands, nvalues, TRUE)

\* return cgc.close()
RasterizeGeometryEnd(t) == End(t, "RasterizeGeometry", TRUE)

\* --------------------------------------------------------- Dataset.Close
\* Close of a dataset: update, the dataset was opened for update; dirty, it
\* was changed in memory since; readonly, its storage can no longer be
\* written (the call's args). The native destroy call runs in an error
\* context.
DatasetCloseBegin(t, custom, update, dirty, readonly) ==
    /\ pc[t].at = "idle"
    /\ pc' = [pc EXCEPT ![t] = [op |-> "Dataset.Close", at |-> "native", sr |-> FALSE]]
    /\ ctxs' = [ctxs EXCEPT ![t] = Append(@, createCGOContext(t, custom))]
    /\ calls' = [calls EXCEPT ![t] =
                    [IdleCall EXCEPT !.op = "Dataset.Close", !.custom = custom,
                                     !.args = <<update, dirty, readonly>>]]

\* The native destroy call: a dataset opened for update and changed is
\* written back to its storage, which reports an Error diagnostic when the
\* storage cannot be written; then the call returns.
DatasetCloseNative(t) ==
    LET top == Len(ctxs[t])
        flush == calls[t].args[1] /\ calls[t].args[2]
        failed == flush /\ calls[t].args[3]
    IN  /\ pc[t].at = "native" /\ pc[t].op = "Dataset.Close"
        /\ pc' = [pc EXCEPT ![t].at = "returned"]
        /\ ctxs' = [ctxs EXCEPT ![t][top] =
                       [@ EXCEPT !.calls = @ + 1,
                                 !.events = IF failed
                                            THEN Append(@, Event("Error", t, FALSE))
                                            ELSE @]]
        /\ calls' = [calls EXCEPT ![t].emitted = IF failed THEN Append(@, "Error")
                                                 ELSE @,
                                  ![t].nullRet = FALSE]

\* Close returning nil whatever the context collected.
DatasetCloseEndUnchecked(t) == End(t, "Dataset.Close", FALSE)

\* Close returns the error of its context.
DatasetCloseEnd(t) == End(t, "Dataset.Close", TRUE)

\* ------------------------------------------- operations that return a handle
\* The operations that wrap the handle their native call returns:
\*   cgc := createCGOContext(...); hndl := C.godal...(cgc.cPointer(), ...)
\*   if err := cgc.close(); err != nil { return nil, err }
\*   return &Geometry{...hndl} / &Feature{hndl} / Layer{...hndl} / &Dataset{...hndl}, nil
HandleProducingOps ==
    {"Simplify", "Buffer", "Difference", "Union", "SubGeometry", "NewFeature",
     "CreateLayer", "CopyLayer", "NewGeometryFromGeoJSON", "NewGeometryFromWKT",
     "NewGeometryFromWKB", "Rasterize", "VectorTranslate"}

\* cgc := createCGOContext(...), up to the native call.
HandleOpBegin(t, op, custom) == Begin(t, op, custom, FALSE)

\* The operation returning its wrapper whatever close() said.
HandleOpEndUnchecked(t, op) == End(t, op, FALSE)

\* if err := cgc.close(); err != nil { return nil, err }; return the wrapper
\* of hndl (calls[t].nullRet: hndl is nil).
HandleOpEnd(t, op) == End(t, op, TRUE)

\* ------------------------------------------------------------ CreateLayer
\* The FieldDefinition options of a call, in the order given: each
\* NewFieldDefinition(name, fdtype), of which the kind is kept.
FieldDefinitions ==
    UNION {[1..n -> {"FTInt", "FTString"}] : n \in 0..MaxFieldDefs}

\* func (ds *Dataset) CreateLayer(name, sr, gtype, opts ...) (Layer, error),
\* up to C.godalCreateLayer. The call's args: the fields asked for, and the
\* attributes of the layer it returned.
CreateLayerBegin(t, custom, fields) ==
    /\ pc[t].at = "idle"
    /\ pc' = [pc EXCEPT ![t] = [op |-> "CreateLayer", at |-> "native", sr |-> FALSE]]
    /\ ctxs' = [ctxs EXCEPT ![t] = Append(@, createCGOContext(t, custom))]
    /\ calls' = [calls EXCEPT ![t] =
                    [IdleCall EXCEPT !.op = "CreateLayer", !.custom = custom,
                                     !.args = [fields |-> fields, schema |-> <<>>]]]

\* if err := cgc.close(); err != nil { return Layer{}, err }; then, for each
\* field, C.OGR_L_CreateField(hndl, fhndl, 0), whose result is dropped
\* (created[i]: the native creation of the i-th field succeeded); then
\* return Layer{...}, nil.
CreateLayerEnd(t, created) ==
    LET top == Len(ctxs[t])
        r == cgcClose(ctxs[t][top])
        fields == calls[t].args.fields
        kept == SetToSeq({i \in DOMAIN fields : created[i]})
    IN  /\ pc[t].at = "returned" /\ pc[t].op = "CreateLayer"
        /\ created \in [DOMAIN fields -> BOOLEAN]
        /\ r.err => \A i \in DOMAIN fields : ~created[i]
        /\ ctxs' = [ctxs EXCEPT ![t] = SubSeq(@, 1, top - 1)]
        /\ calls' = [calls EXCEPT ![t].done = TRUE,
                                  ![t].err = r.err,
                                  ![t].delivered = IF calls[t].custom
                                                   THEN r.delivered ELSE <<>>,
                                  ![t].args.schema =
                                      [k \in DOMAIN kept |-> fields[kept[k]]]]
        /\ pc' = [pc EXCEPT ![t] = Idle]

\* ------------------------------------------- Rasterize and VectorTranslate
\* The switches, creation options and driver option a call is made with; the
\* driver "" is no driver option.
SwitchLists == {<<>>, <<"-te", "99">>, <<"-f", "bogus", "-co", "X=1">>}

CreationOptions == {<<>>, <<"TILED=YES">>, <<"TILED=YES", "BLOCKXSIZE=256">>}

DriverNames == {"", "GTiff", "Mitab", "Unregistered"}

\* driverMappings: the names a driver is registered under as a raster and as
\* a vector driver.
driverMappings ==
    [GTiff |-> [rasterName |-> "GTiff", vectorName |-> ""],
     GeoJSON |-> [rasterName |-> "", vectorName |-> "GeoJSON"],
     Mitab |-> [rasterName |-> "", vectorName |-> "MapInfo File"]]

\* for _, copt := range options { switches = append(switches, flag, copt) }
RECURSIVE AppendEach(_, _, _)
AppendEach(switches, flag, options) ==
    IF options = <<>> THEN switches
    ELSE AppendEach(switches \o <<flag, Head(options)>>, flag, Tail(options))

\* Rasterize naming the driver by its identifier, whatever its mapping.
RasterizeSwitchesByIdentifier(switches, create, driver) ==
    LET withco == AppendEach(switches, "-co", create)
    IN  IF driver # "" THEN withco \o <<"-of", driver>> ELSE withco

\* The switches of Rasterize as given to sliceToCStringArray.
RasterizeSwitches(switches, create, driver) ==
    LET withco == AppendEach(switches, "-co", create)
        dname == IF driver \in DOMAIN driverMappings
                 THEN driverMappings[driver].rasterName ELSE driver
    IN  IF driver # "" THEN withco \o <<"-of", dname>> ELSE withco

\* The switches of VectorTranslate as given to sliceToCStringArray.
VectorTranslateSwitches(switches, creation, driver) ==
    LET withco == AppendEach(switches, "-dsco", creation)
        dname == IF driver \in DOMAIN driverMappings
                 THEN driverMappings[driver].vectorName ELSE driver
    IN  IF driver # "" THEN withco \o <<"-f", dname>> ELSE withco

\* A call of Rasterize or VectorTranslate up to its native call. The call's
\* args: the three inputs, and the switches passed.
TranslateStart(t, op, custom, switches, create, driver, passed) ==
    /\ pc[t].at = "idle"
    /\ pc' = [pc EXCEPT ![t] = [op |-> op, at |-> "native", sr |-> FALSE]]
    /\ ctxs' = [ctxs EXCEPT ![t] = Append(@, createCGOContext(t, custom))]
    /\ calls' = [calls EXCEPT ![t] =
                    [IdleCall EXCEPT !.op = op, !.custom = custom,
                                     !.args = [switches |-> switches,
                                               create |-> create,
                                               driver |-> driver,
                                               passed |-> passed]]]

\* func (ds *Dataset) Rasterize(dstDS, switches, opts ...) (*Dataset, error)
RasterizeStart(t, custom, switches, create, driver) ==
    TranslateStart(t, "Rasterize", custom, switches, create, driver,
                   RasterizeSwitches(switches, create, driver))

\* func (ds *Dataset) VectorTranslate(dstDS, switches, opts ...) (*Dataset, error)
VectorTranslateStart(t, custom, switches, creation, driver) ==
    TranslateStart(t, "VectorTranslate", custom, switches, creation, driver,
                   VectorTranslateSwitches(switches, creation, driver))

\* ------------------------------------------- the contexts of the operations
\* Operations of the shape
\*   cgc := createCGOContext(nil, o.errorHandler); C.godal...(cgc.cPointer(), ...)
\*   return cgc.close()
\* taken with their contexts.
ContextOps == {"CreateFeature", "Reproject"}

\* Difference and Union up to their native call: with an empty other
\* geometry they return an error at once; the call's args say so.
BinaryStart(t, op, custom, otherEmpty) ==
    /\ pc[t].at = "idle"
    /\ IF otherEmpty
       THEN /\ calls' = [calls EXCEPT ![t] =
                            [IdleCall EXCEPT !.op = op, !.custom = custom,
                                             !.done = TRUE, !.err = TRUE,
                                             !.args = <<otherEmpty>>]]
            /\ UNCHANGED <<pc, ctxs>>
       ELSE /\ pc' = [pc EXCEPT ![t] = [op |-> op, at |-> "native", sr |-> FALSE]]
            /\ ctxs' = [ctxs EXCEPT ![t] = Append(@, createCGOContext(t, custom))]
            /\ calls' = [calls EXCEPT ![t] =
                            [IdleCall EXCEPT !.op = op, !.custom = custom,
                                             !.args = <<otherEmpty>>]]

\* NewGeometryFromWKB up to its native call: the context is created, and
\* then &wkb[0] panics on an empty slice, which ends the call with its
\* context open.
NewGeometryFromWKBStart(t, custom, wkbLen) ==
    /\ pc[t].at = "idle"
    /\ pc' = [pc EXCEPT ![t] = [op |-> "NewGeometryFromWKB",
                                at |-> IF wkbLen = 0 THEN "panicked" ELSE "native",
                                sr |-> FALSE]]
    /\ ctxs' = [ctxs EXCEPT ![t] = Append(@, createCGOContext(t, custom))]
    /\ calls' = [calls EXCEPT ![t] =
                    [IdleCall EXCEPT !.op = "NewGeometryFromWKB",
                                     !.custom = custom,
                                     !.done = (wkbLen = 0),
                                     !.args = <<wkbLen>>]]

\* ------------------------------------------------------ the specifications
\* Nothing runs once the process has crashed.
Gs == IF crashed THEN {} ELSE DOMAIN geoms

Fs == IF crashed THEN {} ELSE DOMAIN feats

Ls == IF crashed THEN {} ELSE Layers

\* A call of the handle API leaves the feature under test alone.
H(A) == A /\ UNCHANGED varsF /\ UNCHANGED varsC /\ UNCHANGED read

\* A call of the field API leaves the wrappers alone.
F(A) == A /\ UNCHANGED varsH /\ UNCHANGED varsC /\ UNCHANGED read

HNext ==
    \/ \E g \in Gs : H(Simplify(g))
    \/ \E g \in Gs : H(Buffer(g))
    \/ \E g \in Gs, o \in 0..Len(geoms) : H(Difference(g, o))
    \/ \E g \in Gs, o \in 0..Len(geoms) : H(Union(g, o))
    \/ ~crashed /\ H(NewGeometryFromGeoJSON)
    \/ ~crashed /\ H(NewGeometryFromWKT)
    \/ \E n \in 0..1 : ~crashed /\ H(NewGeometryFromWKB(n))
    \/ \E g \in Gs : H(ForceToMultiPolygon(g))
    \/ \E g \in Gs : H(ForceToPolygon(g))
    \/ \E g \in Gs, sub \in Gs : H(AddGeometry(g, sub))
    \/ \E g \in Gs, i \in 0..MaxParts : H(SubGeometry(g, i))
    \/ \E g \in Gs : H(GeometryClose(g))
    \/ ~crashed /\ H(ZeroGeometry)
    \/ ~crashed /\ H(ZeroFeature)
    \/ \E l \in Ls : H(NextFeature(l))
    \/ \E l \in Ls : H(ResetReading(l))
    \/ \E f \in Fs : H(FeatureGeometry(f))
    \/ \E f \in Fs : H(FeatureClose(f))
    \/ \E f \in Fs, g \in Gs : H(SetGeometry(f, g))
    \/ \E f \in Fs, fid \in 0..(MaxFid + 1) : H(SetFID(f, fid))
    \/ \E l \in Ls, f \in Fs : H(CreateFeature(l, f))
    \/ \E l \in Ls, g \in {0} \cup Gs : H(NewFeature(l, g))
    \/ \E l \in Ls, f \in Fs : H(UpdateFeature(l, f))
    \/ \E l \in Ls, f \in Fs : H(DeleteFeature(l, f))
    \/ ~crashed /\ H(CreateLayer)
    \/ \E l \in Ls : H(CopyLayer(l))
    \/ \E l \in Ls : H(Polygonize(l))
    \/ \E l \in Ls : H(LayerBounds(l))
    \/ \E l \in Ls : H(FeatureCount(l))
    \/ \E l \in Ls : H(LayerName(l))
    \/ \E l \in Ls : H(LayerType(l))
    \/ \E g \in Gs : H(GeometryArea(g))
    \/ \E g \in Gs : H(GeometryCount(g))
    \/ \E g \in Gs : H(GeometryType(g))
    \/ \E g \in Gs : H(GeometryEmpty(g))
    \/ \E g \in Gs : H(GeometryValid(g))
    \/ \E f \in Fs : H(FeatureFields(f))
    \/ \E g \in Gs : H(SetSpatialRef(g))
    \/ \E f \in Fs : H(SetGeometryColumnName(f))
    \/ \E g \in Gs : H(Reproject(g))
    \/ \E g \in Gs : H(Transform(g))

FieldIndexes == 0..2

FNext ==
    \/ F(Fields)
    \/ \E index \in FieldIndexes : F(GetByIndex(index))
    \/ \E name \in FieldNames : F(GetByName(name))
    \/ \E T \in FieldValueType : F(GetValue(T))
    \/ \E srcNil \in BOOLEAN, T \in FieldValueType :
           \E value \in Values(T) : F(SetValue(srcNil, T, value))
    \/ F(CloseFieldsFeature)

\* A call in an error context leaves the wrappers and the fields alone.
C(A) == A /\ UNCHANGED varsH /\ UNCHANGED varsF /\ UNCHANGED read

\* The end of a call in an error context whose native call wrote to a
\* layer or moved its read position.
L(A) ==
    /\ A
    /\ UNCHANGED <<heap, geoms, feats, trace, lastOp, crashed>>
    /\ UNCHANGED varsF
    /\ UNCHANGED read

CNext ==
    \/ \E t \in Threads, custom \in BOOLEAN : C(RasterizeBegin(t, custom))
    \/ \E t \in Threads, custom \in BOOLEAN : C(PolygonizeBegin(t, custom))
    \/ \E t \in Threads, custom \in BOOLEAN, sr \in BOOLEAN :
           C(BoundsBegin(t, custom, sr))
    \/ \E t \in Threads, sev \in Severities : C(NativeEmit(t, sev))
    \/ \E t \in Threads, failed \in BOOLEAN : C(NativeReturn(t, failed))
    \/ \E t \in Threads : L(RasterizeEnd(t))
    \/ \E t \in Threads, l \in Layers : L(PolygonizeEnd(t, l))
    \/ \E t \in Threads, l \in Layers : L(BoundsClose(t, l))
    \/ \E t \in Threads : C(BoundsReproject(t))
    \/ \E t \in Threads, failed \in BOOLEAN : C(BoundsReprojectEnd(t, failed))

\* The geometry a feature of the opened layer has: none, or one of so many
\* parts.
FeatureShapes == -1..1

\* The wrappers and the native heap.
Init == InitH(LayerFeatures, FeatureShapes) /\ trace = FALSE /\ schema = <<>> /\ InitF /\ InitC

Spec == Init /\ [][HNext]_vars

\* The same, every call recorded in lastOp.
InitTraced == InitH(LayerFeatures, -1..0) /\ trace = TRUE /\ schema = <<>> /\ InitF /\ InitC

SpecTraced == InitTraced /\ [][HNext]_vars

\* The calls that make, derive, borrow and release geometries, recorded in
\* lastOp: what Difference and Union read. The calls that only write or scan
\* a layer are left out.
GNext ==
    \/ \E g \in Gs : H(Buffer(g))
    \/ \E g \in Gs, o \in 0..Len(geoms) : H(Difference(g, o))
    \/ \E g \in Gs, o \in 0..Len(geoms) : H(Union(g, o))
    \/ ~crashed /\ H(NewGeometryFromWKT)
    \/ \E g \in Gs : H(ForceToMultiPolygon(g))
    \/ \E g \in Gs, sub \in Gs : H(AddGeometry(g, sub))
    \/ \E g \in Gs, i \in 0..MaxParts : H(SubGeometry(g, i))
    \/ \E g \in Gs : H(GeometryClose(g))
    \/ ~crashed /\ H(ZeroGeometry)
    \/ \E l \in Ls : H(NextFeature(l))
    \/ \E l \in Ls : H(ResetReading(l))
    \/ \E f \in Fs : H(FeatureGeometry(f))
    \/ \E f \in Fs : H(FeatureClose(f))
    \/ \E g \in Gs : H(SetSpatialRef(g))

SpecGeometry == InitTraced /\ [][GNext]_vars

\* The fields of one feature, for each layer definition of Schemas.
InitFields == InitH(LayerFeatures, {0}) /\ trace = FALSE /\ schema \in Schemas /\ InitF /\ InitC

SpecFields == InitFields /\ [][FNext]_vars

\* Operations in their error contexts, on two threads.
\* A dataset with one layer, empty or of one feature, nothing read.
InitOpened ==
    /\ \E n \in 0..LayerFeatures : InitH(n, {0})
    /\ trace = FALSE /\ schema = <<>> /\ InitF /\ InitC

SpecCtx == InitOpened /\ [][CNext]_vars

\* The goroutine that calls RasterizeGeometry.
Caller == CHOOSE t \in Threads : \A u \in Threads : t <= u

RNext ==
    \/ \E custom \in BOOLEAN, dsBands \in 0..MaxBands,
          nbands \in 0..MaxBands, nvalues \in 0..MaxBands :
           C(RasterizeGeometryBegin(Caller, custom, dsBands, nbands, nvalues))
    \/ \E sev \in Severities : C(NativeEmit(Caller, sev))
    \/ \E failed \in BOOLEAN : C(NativeReturn(Caller, failed))
    \/ C(RasterizeGeometryEnd(Caller))

\* RasterizeGeometry with every choice of dataset and options.
SpecRasterize == InitOpened /\ [][RNext]_vars

DNext ==
    \/ \E custom \in BOOLEAN :
           \E update \in BOOLEAN, dirty \in BOOLEAN, readonly \in BOOLEAN :
               C(DatasetCloseBegin(Caller, custom, update, dirty, readonly))
    \/ \E sev \in Severities : C(NativeEmit(Caller, sev))
    \/ C(DatasetCloseNative(Caller))
    \/ C(DatasetCloseEnd(Caller))

PNext ==
    \/ \E op \in HandleProducingOps, custom \in BOOLEAN :
           C(HandleOpBegin(Caller, op, custom))
    \/ \E sev \in Severities : C(NativeEmit(Caller, sev))
    \/ \E failed \in BOOLEAN : C(NativeReturn(Caller, failed))
    \/ \E op \in HandleProducingOps : C(HandleOpEnd(Caller, op))

\* The operations that return a handle, each in its error context.
SpecHandles == InitOpened /\ [][PNext]_vars

\* Datasets closed one after the other, in every mode and condition.
SpecClose == InitOpened /\ [][DNext]_vars

LNext ==
    \/ \E custom \in BOOLEAN, fields \in FieldDefinitions :
           C(CreateLayerBegin(Caller, custom, fields))
    \/ \E sev \in Severities : C(NativeEmit(Caller, sev))
    \/ \E failed \in BOOLEAN : C(NativeReturn(Caller, failed))
    \/ \E created \in [1..MaxFieldDefs -> BOOLEAN] :
           C(CreateLayerEnd(Caller,
                            [i \in DOMAIN calls[Caller].args.fields |-> created[i]]))

\* CreateLayer with every choice of field definitions.
SpecLayer == InitOpened /\ [][LNext]_vars

Fids(rows) == {r.fid : r \in rows}

\* The layer the caller's record is about.
First(l) == l.cHandle = -1

\* The record after a ResetReading of l.
AfterReset(l) ==
    IF First(l) THEN [NoRead EXCEPT !.count = read.count] ELSE read

\* The record after a NextFeature on l: the fid of the feature returned, or
\* -1 for nil.
AfterNext(l) ==
    LET res == IF Len(feats') > Len(feats)
               THEN heap'[feats'[Len(feats')].h0].fid ELSE -1
    IN  IF ~First(l) \/ read.written THEN read
        ELSE [read EXCEPT !.got =
                 IF res = -1 /\ @ # <<>> /\ @[Len(@)] = -1 THEN @
                 ELSE Append(@, res)]

\* The record after any other call: whether it moved the read position of
\* the first layer, or changed the features the layer holds.
AfterOther ==
    IF read.written \/ Fids(stored'[1]) # Fids(stored[1])
    THEN [NoRead EXCEPT !.written = TRUE]
    ELSE [read EXCEPT !.moved = @ \/ cursor'[1] # cursor[1]]

\* The record after a FeatureCount on l that returned without an error.
AfterCount(l, out) ==
    IF First(l) /\ out = "ok" /\ ~read.written
    THEN [AfterOther EXCEPT !.count = CountReturned(l, out)]
    ELSE AfterOther

\* A call of the handle API, with the caller's record of its pass kept.
R(A, seen) == A /\ read' = seen /\ UNCHANGED varsF /\ UNCHANGED varsC

\* The layers the caller reads and writes: the first layer of the dataset
\* and the zero Layer{}.
IterLs == {l \in Ls : l.cHandle \in {NULL, -1}}

INext ==
    \/ \E l \in IterLs : R(NextFeatureOn(l, IterWraps, IterWraps), AfterNext(l))
    \/ \E l \in IterLs : R(ResetReading(l), AfterReset(l))
    \/ \E l \in IterLs, f \in Fs : R(UpdateFeature(l, f), AfterOther)
    \/ \E l \in IterLs, f \in Fs : R(DeleteFeature(l, f), AfterOther)
    \/ \E l \in IterLs, out \in {"ok", "err"} :
            \E c \in ScanOutcomes(l.cHandle) :
                R(FeatureCountAs(l, out, c), AfterCount(l, out))
    \/ \E l \in IterLs : R(LayerBounds(l), AfterOther)
    \/ \E l \in IterLs : R(CopyLayer(l), AfterOther)
    \/ ~crashed /\ R(Translate("Rasterize"), AfterOther)
    \/ ~crashed /\ R(Translate("VectorTranslate"), AfterOther)
    \/ \E f \in Fs : R(FeatureClose(f), read)

InitIterate ==
    InitH(IterFeatures, {-1}) /\ trace = FALSE /\ schema = <<>> /\ InitF /\ InitC

\* A layer of several features read, rewound and read again, with the calls
\* that write to it, scan it or read it to its end made in between.
SpecIterate == InitIterate /\ [][INext]_vars

SNext ==
    \/ \E custom \in BOOLEAN, switches \in SwitchLists,
          create \in CreationOptions, driver \in DriverNames :
           C(RasterizeStart(Caller, custom, switches, create, driver))
    \/ \E custom \in BOOLEAN, switches \in SwitchLists,
          creation \in CreationOptions, driver \in DriverNames :
           C(VectorTranslateStart(Caller, custom, switches, creation, driver))
    \/ \E sev \in Severities : C(NativeEmit(Caller, sev))
    \/ \E failed \in BOOLEAN : C(NativeReturn(Caller, failed))
    \/ L(RasterizeEnd(Caller))
    \/ L(VectorTranslateEnd(Caller))

\* Rasterize and VectorTranslate with every choice of switches and options.
SpecSwitches == InitOpened /\ [][SNext]_vars

XNext ==
    \/ \E op \in ContextOps, custom \in BOOLEAN :
           C(HandleOpBegin(Caller, op, custom))
    \/ \E op \in {"Difference", "Union"}, custom \in BOOLEAN,
          otherEmpty \in BOOLEAN :
           C(BinaryStart(Caller, op, custom, otherEmpty))
    \/ \E custom \in BOOLEAN, wkbLen \in 0..1 :
           C(NewGeometryFromWKBStart(Caller, custom, wkbLen))
    \/ \E custom \in BOOLEAN, dsBands \in 0..MaxBands,
          nbands \in 0..MaxBands, nvalues \in 0..MaxBands :
           C(RasterizeGeometryBegin(Caller, custom, dsBands, nbands, nvalues))
    \/ \E sev \in Severities : C(NativeEmit(Caller, sev))
    \/ \E failed \in BOOLEAN : C(NativeReturn(Caller, failed))
    \/ \E op \in ContextOps \cup {"Difference", "Union", "NewGeometryFromWKB"} :
           C(HandleOpEnd(Caller, op))
    \/ C(RasterizeGeometryEnd(Caller))

\* The operations with their contexts, on every path through them.
SpecDiscipline == InitOpened /\ [][XNext]_vars

\* ------------------------------------------------------------ ownership
Closed(w) == w.handle = NULL /\ w.h0 # NULL

\* C1: every Owned Geometry wrapper made with a non-null handle, and every
\* Feature wrapper made with one, has called the native destroy function at
\* most once however many times Close ran on it: exactly once when it is
\* closed, not at all before; and a Close on a wrapper that is already
\* closed destroys nothing and does not panic.
C1_IdempotentClose ==
    /\ \A g \in DOMAIN geoms :
          (geoms[g].isOwned /\ geoms[g].h0 # NULL) =>
              geoms[g].destroys = (IF Closed(geoms[g]) THEN 1 ELSE 0)
    /\ \A f \in DOMAIN feats :
          feats[f].h0 # NULL =>
              feats[f].destroys = (IF Closed(feats[f]) THEN 1 ELSE 0)
    /\ (lastOp.op = "Geometry.Close" /\ lastOp.destroyed = NULL) => ~crashed
    /\ (lastOp.op = "Feature.Close" /\ lastOp.destroyed = NULL) => ~crashed

\* A second Close has just run on an Owned geometry that had already
\* destroyed its native object, next to a feature that is closed as well.
C1_Witness ==
    /\ lastOp.op = "Geometry.Close" /\ lastOp.destroyed = NULL
    /\ geoms[lastOp.recv].isOwned /\ geoms[lastOp.recv].destroys = 1
    /\ \E f \in DOMAIN feats : Closed(feats[f]) /\ feats[f].destroys = 1

\* C2: a wrapper returned by SubGeometry or Feature.Geometry is not owned,
\* and no number of Close calls on it calls the native destroy function;
\* Close only sets its handle to nil.
C2_BorrowedNeverDestroys ==
    \A g \in DOMAIN geoms :
        geoms[g].origin = "borrowing" =>
            ~geoms[g].isOwned /\ geoms[g].destroys = 0

\* A borrowed geometry was closed and the native object it referred to is
\* still alive.
C2_Witness ==
    \E g \in DOMAIN geoms :
        /\ geoms[g].origin = "borrowing" /\ Closed(geoms[g])
        /\ heap[geoms[g].h0].live

BorrowedCloseStep(g) ==
    /\ g \in DOMAIN geoms
    /\ ~geoms[g].isOwned /\ geoms[g].handle # NULL
    /\ geoms'[g].handle = NULL

\* C3: a Close on a borrowed geometry changes no native object and no other
\* wrapper (so the parent's handle is the same and as alive as before, and
\* every call on the parent behaves as it did), does not panic, and the
\* wrapper that owns the parent object destroys it exactly once when it is
\* closed later.
C3_OwnershipRespected ==
    /\ [][\A g \in DOMAIN geoms :
            BorrowedCloseStep(g) =>
                /\ heap' = heap /\ feats' = feats /\ ~crashed'
                /\ \A p \in DOMAIN geoms \ {g} : geoms'[p] = geoms[p]]_vars
    /\ [](\A g \in DOMAIN geoms :
            (~geoms[g].isOwned /\ Closed(geoms[g]) /\ geoms[g].parent # NULL) =>
                /\ geoms[g].destroys = 0
                /\ \A f \in DOMAIN feats :
                      feats[f].h0 = geoms[g].parent =>
                          feats[f].destroys = (IF Closed(feats[f]) THEN 1 ELSE 0)
                /\ \A p \in DOMAIN geoms :
                      (geoms[p].h0 = geoms[g].parent /\ geoms[p].isOwned) =>
                          geoms[p].destroys = (IF Closed(geoms[p]) THEN 1 ELSE 0))

\* The parent of a borrowed geometry that was closed before has just been
\* closed, and destroyed its native object.
C3_Witness ==
    /\ lastOp.op \in {"Geometry.Close", "Feature.Close"}
    /\ lastOp.destroyed # NULL
    /\ ~crashed
    /\ \E g \in DOMAIN geoms :
          /\ ~geoms[g].isOwned /\ Closed(geoms[g])
          /\ geoms[g].parent = lastOp.destroyed

\* C4: every wrapper returned by Simplify, Buffer, Difference, Union,
\* ForceToPolygon, ForceToMultiPolygon, NewGeometryFromWKT,
\* NewGeometryFromWKB or NewGeometryFromGeoJSON is owned, and its first
\* Close calls the native destroy function.
C4_DerivedAreOwned ==
    \A g \in DOMAIN geoms :
        geoms[g].origin = "owning" =>
            /\ geoms[g].isOwned
            /\ Closed(geoms[g]) => geoms[g].destroys = 1

\* A geometry made by one of these operations was closed and its native
\* object destroyed by that.
C4_Witness ==
    \E g \in DOMAIN geoms :
        /\ geoms[g].origin = "owning" /\ Closed(geoms[g])
        /\ geoms[g].destroys = 1 /\ ~heap[geoms[g].h0].live

\* ---------------------------------------------------------- null handles
\* The accessors that have no error result.
PlainAccessors ==
    {"Layer.Name", "Layer.Type", "Geometry.Type", "Geometry.Area",
     "Geometry.GeometryCount", "Geometry.Empty", "Geometry.Valid",
     "Feature.Fields"}

\* The handle of the wrapper the last call was made on (layers are passed by
\* value and recorded by the flag alone).
ReceiverIsNull ==
    IF lastOp.op \in {"Feature.Fields"} THEN feats[lastOp.recv].handle = NULL
    ELSE IF lastOp.op \in {"Layer.Name", "Layer.Type"} THEN lastOp.nullArg
    ELSE geoms[lastOp.recv].handle = NULL

\* C5 as stated: an accessor called on a wrapper with a nil handle returns an
\* error and does not pass the nil handle to the native library.
C5_AccessorsRejectNull ==
    (lastOp.op \in PlainAccessors /\ ~lastOp.panic /\ ReceiverIsNull) =>
        (lastOp.err /\ ~lastOp.nullArg)

\* ------------------------------------------------------------ typed fields
\* C8 as stated: after a successful SetValue(field, v), a fresh Fields()
\* snapshot holds for that field a payload that GetValue returns, with the
\* type of v, equal to v.
C8_RoundTrip ==
    (fout.op = "Fields" /\ fopen /\ pending.index >= 0) =>
        LET a == AnyAs(flds[pending.index + 1].val, pending.val.t)
        IN  a.ok /\ a.v = pending.val.v

\* C9: GetValue with type parameter T returns no error exactly when the
\* field's kind is the one whose Go type is T (never for Unknown), then with
\* the field's payload; otherwise it returns an error and the zero value of
\* T. No kind converts to another type.
C9_GetValueExactType ==
    fout.op = "GetValue" =>
        /\ ~fout.err <=> GoTypeOf(held[1].ftype) = fout.T
        /\ IF fout.err THEN fout.val = AnyVal(fout.T, ZeroOf(fout.T))
           ELSE GoEqual(fout.val, held[1].val)

\* An int64 querier has just failed on an Int field that holds a value.
C9_Witness ==
    /\ fout.op = "GetValue" /\ fout.err /\ fout.T = "int64"
    /\ held[1].ftype = "FTInt" /\ held[1].isSet

\* C10: a SetValue whose type parameter is not the Go type of the field's
\* kind returns an error (it does not panic), and changes neither the native
\* feature nor the Field.
C10_MismatchRejected ==
    [][(fout'.op = "SetValue" /\ held # <<>>
            /\ fout'.T # GoTypeOf(held[1].ftype)) =>
        /\ fout'.err /\ ~fout'.panic /\ ~fout'.wrote
        /\ native' = native
        /\ held' = held]_vars

\* A string was offered, through a querier on the open feature, to a field
\* of another writable kind that holds a value, and refused.
C10_Witness ==
    /\ fout.op = "SetValue" /\ fout.err /\ ~fout.srcNil /\ fopen
    /\ fout.T = "string"
    /\ held[1].ftype \notin {"FTString", "FTUnknown"} /\ held[1].isSet

\* ----------------------------------------------------------- diagnostics
Real(events) ==
    LET NotSynth(e) == ~e.synth
        real == SelectSeq(events, NotSynth)
    IN  [i \in DOMAIN real |-> real[i].sev]

C11_NoFeatureRejected ==
    [][(fout'.op = "SetValue" /\ (fout'.srcNil \/ ~fopen)) =>
        /\ fout'.err /\ ~fout'.panic /\ ~fout'.wrote
        /\ native' = native
        /\ held' = held]_vars

\* An empty []byte was offered to a Binary field of a closed feature (the
\* case that panics on an open one), and refused with an error.
C11_Witness ==
    /\ fout.op = "SetValue" /\ fout.err /\ ~fout.panic
    /\ ~fopen /\ ~fout.srcNil
    /\ held[1].ftype = "FTBinary"
    /\ fout.val = AnyVal("[]byte", <<>>)

\* ------------------------------------------------------ unhandled kinds
\* C12: SetValue on a Field of kind Unknown returns an error for every type
\* parameter and every value, makes no native write, and leaves the Field's
\* isSet and payload as they were.
C12_UnknownKindRejected ==
    [][(fout'.op = "SetValue" /\ held # <<>>
            /\ held[1].ftype = "FTUnknown") =>
        /\ fout'.err /\ ~fout'.panic /\ ~fout'.wrote
        /\ native' = native
        /\ held' = held]_vars

\* A []string was offered, through a querier on the open feature, to the
\* field declared with a type Fields() has no case for, and refused.
C12_Witness ==
    /\ fout.op = "SetValue" /\ fout.err /\ ~fout.srcNil /\ fopen
    /\ fout.T = "[]string"
    /\ schema[held[1].index + 1] = "OFTWideString"
    /\ held[1].ftype = "FTUnknown" /\ ~held[1].isSet /\ held[1].val = NilAny

\* ------------------------------------------------- the Field after a write
\* C13 as stated: a SetValue(field, v) that returns no error leaves that
\* Field with isSet true and the payload v, the same field of the feature
\* otherwise; and a GetValue of v's type called next on that Field returns
\* v, whatever the native feature holds.
C13_CacheAfterSet ==
    /\ [][(fout'.op = "SetValue" /\ ~fout'.err /\ ~fout'.panic) =>
            /\ held'[1].isSet /\ GoEqual(held'[1].val, fout'.val)
            /\ held'[1].index = held[1].index
            /\ held'[1].name = held[1].name
            /\ held'[1].ftype = held[1].ftype]_vars
    /\ [][(/\ fout.op = "SetValue" /\ ~fout.err /\ ~fout.panic
            /\ fout'.op = "GetValue" /\ fout'.T = fout.T) =>
            /\ ~fout'.err /\ GoEqual(fout'.val, fout.val)
            /\ native' = native]_vars

\* ------------------------------------------------- the snapshot after a write
\* C14 as stated: when SetValue succeeds with value v on a Field obtained
\* from the snapshot flds by GetByIndex or GetByName, looking the same field
\* up again in that snapshot yields a Field with isSet true and payload v.
C14_SnapshotConsistent ==
    [][(/\ fout'.op = "SetValue" /\ ~fout'.err /\ ~fout'.panic
        /\ \E i \in DOMAIN flds : flds[i] = held[1]) =>
           LET byIndex == FirstMatch(flds', {i \in DOMAIN flds' :
                                                flds'[i].index = held[1].index})
               byName == FirstMatch(flds', {i \in DOMAIN flds' :
                                               flds'[i].name = held[1].name})
           IN  /\ byIndex # <<>> /\ byName # <<>>
               /\ byIndex[1].isSet /\ GoEqual(byIndex[1].val, fout'.val)
               /\ byName[1].isSet /\ GoEqual(byName[1].val, fout'.val)]_vars

\* ------------------------------------------------------ the Fields snapshot
\* C15: Fields() on an open feature returns one Field per attribute of the
\* layer definition, in its order: as many as the native field count, the
\* i-th with index i, the name of the i-th attribute, and the kind of its
\* declared type (Unknown for a type outside the twelve that have a case).
C15_OnePerSlot ==
    (fout.op = "Fields" /\ fopen) =>
        LET KindOf ==
                {<<"OFTInteger", "FTInt">>, <<"OFTInteger64", "FTInt64">>,
                 <<"OFTReal", "FTReal">>, <<"OFTString", "FTString">>,
                 <<"OFTDate", "FTDate">>, <<"OFTTime", "FTTime">>,
                 <<"OFTDateTime", "FTDateTime">>,
                 <<"OFTIntegerList", "FTIntList">>,
                 <<"OFTInteger64List", "FTInt64List">>,
                 <<"OFTRealList", "FTRealList">>,
                 <<"OFTStringList", "FTStringList">>,
                 <<"OFTBinary", "FTBinary">>}
        IN  /\ Len(flds) = Len(native)
            /\ Len(flds) = Len(schema)
            /\ \A i \in DOMAIN flds :
                  /\ flds[i].index = i - 1
                  /\ flds[i].name = FieldName(i - 1)
                  /\ IF \E p \in KindOf : p[1] = schema[i]
                     THEN <<schema[i], flds[i].ftype>> \in KindOf
                     ELSE flds[i].ftype = "FTUnknown"

\* Fields() has returned the two fields of a layer declared with an
\* Integer64 and a DateTime attribute, the first of them already written.
C15_Witness ==
    /\ fout.op = "Fields" /\ fopen
    /\ schema = <<"OFTInteger64", "OFTDateTime">>
    /\ Len(flds) = 2
    /\ flds[1].ftype = "FTInt64" /\ flds[1].isSet
    /\ flds[2].ftype = "FTDateTime" /\ flds[2].index = 1

\* ------------------------------------------------------- the empty schema
\* C16 as stated: Fields() on a feature whose layer declares no attribute
\* returns a sequence of length 0 that is not nil, and no error.
C16_EmptyNotNil ==
    (fout.op = "Fields" /\ fopen /\ schema = <<>>) =>
        /\ Len(flds) = 0 /\ ~fout.err /\ ~fout.panic
        /\ ~fout.isNil

\* ------------------------------------------------------- burn-value arity
\* C17: when, after the defaults (all the bands of the dataset for no band,
\* a 0 for each band for no value), the number of burn values is neither 1
\* nor the number of bands, RasterizeGeometry returns an error, having
\* created no error context and made no native call; and whenever it makes
\* its native call the band list and the value list have the same length.
C17_BurnValueArity ==
    \A t \in Threads :
        calls[t].op = "RasterizeGeometry" =>
            LET c == calls[t]
                a == c.args
                nb == IF a.asked[2] = 0 THEN a.asked[1] ELSE a.asked[2]
                nv == IF a.asked[3] = 0 THEN nb ELSE a.asked[3]
                invoked == \/ pc[t].at \in {"native", "returned"}
                           \/ c.done /\ a.ctx /\ ~a.panic
            IN  /\ nv \notin {1, nb} =>
                      /\ c.done /\ c.err /\ ~a.panic
                      /\ ~a.ctx /\ ctxs[t] = <<>>
                      /\ ~invoked /\ c.emitted = <<>>
                /\ invoked =>
                      /\ Len(a.bands) = Len(a.values)
                      /\ Len(a.bands) = nb

\* RasterizeGeometry was called with three bands and two values, and has
\* returned an error.
C17_Witness ==
    \E t \in Threads :
        /\ calls[t].op = "RasterizeGeometry"
        /\ calls[t].args.asked[2] = 3 /\ calls[t].args.asked[3] = 2
        /\ calls[t].done /\ calls[t].err /\ ~calls[t].args.ctx
        /\ pc[t].at = "idle"

\* ------------------------------------------------------ the close of a dataset
\* C18: when a dataset opened for update was changed in memory and its
\* storage can no longer be written, Close returns an error (the failure of
\* the write-back the native destroy performs); and Close returns an error
\* only when the native call reported one.
C18_CloseReportsFlushFailure ==
    \A t \in Threads :
        (calls[t].op = "Dataset.Close" /\ calls[t].done) =>
            LET c == calls[t]
            IN  /\ (c.args[1] /\ c.args[2] /\ c.args[3]) => c.err
                /\ c.err <=> \E i \in DOMAIN c.emitted : c.emitted[i] = "Error"

\* A dataset opened for update and changed was closed after its storage
\* became read-only: the native call reported a warning and then the error
\* of the write-back, and Close returned an error.
C18_Witness ==
    \E t \in Threads :
        /\ calls[t].op = "Dataset.Close" /\ calls[t].done
        /\ calls[t].args = <<TRUE, TRUE, TRUE>>
        /\ calls[t].emitted = <<"Warning", "Error">>
        /\ calls[t].err /\ pc[t].at = "idle" /\ ctxs[t] = <<>>

\* ------------------------------------------------- silent native failures
\* C19: when the native call of an operation that returns a handle has
\* returned a nil handle, the operation returns an error, also when the
\* native library reported no Error diagnostic; so an operation that
\* returns no error wraps a handle that is not nil.
C19_SilentFailureIsFailure ==
    \A t \in Threads :
        (calls[t].op \in HandleProducingOps /\ calls[t].done) =>
            /\ calls[t].nullRet => calls[t].err
            /\ ~calls[t].err => ~calls[t].nullRet

\* NewFeature has returned an error after a native call that returned nil
\* and reported a warning only; the caller's handler got the warning.
C19_Witness ==
    \E t \in Threads :
        /\ calls[t].op = "NewFeature" /\ calls[t].done /\ calls[t].custom
        /\ calls[t].nullRet /\ calls[t].emitted = <<"Warning">>
        /\ calls[t].err

\* ------------------------------------------------ release on error paths
\* C20 as stated: a native object that a failed operation produced is
\* released before the operation returns, so every native object that is
\* alive and is not part of another one is the object some wrapper handed
\* to the caller was made for.
C20_ReleasedOnError ==
    \A h \in DOMAIN heap :
        (heap[h].live /\ heap[h].owners = {}) =>
            \/ \E g \in DOMAIN geoms : geoms[g].h0 = h
            \/ \E f \in DOMAIN feats : feats[f].h0 = h

\* ------------------------------------------------------- empty slices
\* C21 as stated: a SetValue with a value of the field's own type and of
\* length zero (an empty []byte on a Binary field, an empty []int64 on an
\* Int64List field) returns success or an error, and so does
\* NewGeometryFromWKB with an empty byte slice; none of them panics.
C21_NoPanicOnEmpty ==
    /\ (/\ fout.op = "SetValue" /\ ~fout.srcNil /\ fopen
        /\ fout.T = GoTypeOf(held[1].ftype)
        /\ fout.val.v = <<>>) => ~fout.panic
    /\ lastOp.op = "NewGeometryFromWKB" => ~lastOp.panic

\* ------------------------------------------------- the fields of a new layer
\* C22 as stated: a CreateLayer that returns no error returns a layer that
\* has every field it was given a definition for; when the native creation
\* of one of them fails, CreateLayer returns an error.
C22_FieldFailureReported ==
    \A t \in Threads :
        (calls[t].op = "CreateLayer" /\ calls[t].done /\ ~calls[t].err) =>
            calls[t].args.schema = calls[t].args.fields

\* ------------------------------------------------------- dates and times
\* C23 as stated: a successful SetValue(field, v) on a Date, Time or DateTime
\* field
\* stores the year, month, day, hour, minute and second of v with the
\* time-zone flag 1, and leaves v itself as the payload of the Field; a
\* Fields() snapshot decodes each such field as its six stored components in
\* UTC with no sub-second part, or as the zero time when the field is not
\* set; so the value read back after a write of v equals v exactly when v
\* is in UTC and has no sub-second part.
C23_TemporalAsymmetry ==
    /\ [][(/\ fout'.op = "SetValue" /\ fout'.wrote
            /\ held[1].ftype \in {"FTDate", "FTTime", "FTDateTime"}) =>
            LET nf == native'[held[1].index + 1]
                v == fout'.val.v
            IN  /\ nf.set
                /\ nf.v = <<CInt(v[1]), v[2], v[3], v[4], v[5], v[6], 1>>
                /\ held'[1].val = AnyVal("time.Time", v)]_vars
    /\ [](\A i \in DOMAIN flds :
            (/\ fout.op = "Fields" /\ fopen
             /\ schema[i] \in {"OFTDate", "OFTTime", "OFTDateTime"}) =>
                LET nf == native[i]
                IN  /\ flds[i].val.t = "time.Time"
                    /\ flds[i].val.v =
                          (IF nf.set
                           THEN <<FromCInt(nf.v[1]), nf.v[2], nf.v[3], nf.v[4],
                                  nf.v[5], nf.v[6], 0, 0>>
                           ELSE ZeroTime))
    /\ []((/\ fout.op = "Fields" /\ fopen /\ pending.index >= 0
           /\ pending.val.t = "time.Time") =>
              (GoEqual(flds[pending.index + 1].val, pending.val)
                  <=> (pending.val.v[7] = 0 /\ pending.val.v[8] = 0)))

\* ------------------------------------------------- the other geometry
\* C24: a Difference or a Union whose other geometry is a nil pointer, or a
\* wrapper with a nil handle, returns a nil result and the error "other
\* geometry is empty"; it creates no error context and makes no native call
\* (no native object is made or released, no nil handle reaches the native
\* library, the process does not crash), and the receiver and every other
\* wrapper are as they were.
C24_EmptyOtherRejected ==
    [][\A g \in DOMAIN geoms, other \in 0..Len(geoms) :
          (/\ OtherEmpty(other)
           /\ Difference(g, other) \/ Union(g, other)) =>
              /\ lastOp'.op \in {"Difference", "Union"}
              /\ lastOp'.err /\ lastOp'.res = 0
              /\ lastOp'.msg = "other geometry is empty"
              /\ ~lastOp'.ctx /\ ~lastOp'.nullArg /\ ~lastOp'.panic
              /\ heap' = heap /\ geoms' = geoms /\ feats' = feats
              /\ ~crashed']_vars

\* Union has just refused a closed geometry as its other geometry, on a
\* receiver whose native object is alive.
C24_Witness ==
    /\ lastOp.op = "Union" /\ lastOp.err
    /\ lastOp.msg = "other geometry is empty"
    /\ geoms[lastOp.recv].handle # NULL
    /\ heap[geoms[lastOp.recv].handle].live
    /\ \E o \in DOMAIN geoms : o # lastOp.recv /\ Closed(geoms[o])

\* ---------------------------------------------- the arguments of the burn
\* C25: when RasterizeGeometry makes its native call, the band list it
\* passes is the one of the Bands option, or 1, .., N for a dataset of N
\* bands when the option is absent; and the value list it passes is the one
\* of the Values option when that has as many values as there are bands, the
\* single value repeated for each band when it has one, and a 0 for each
\* band when the option is absent. A call on one band or more with no
\* value, one value or as many values as bands is not refused for its counts.
C25_ArgumentDefaulting ==
    \A t \in Threads :
        calls[t].op = "RasterizeGeometry" =>
            LET c == calls[t]
                a == c.args
                N == a.asked[1]
                nbands == a.asked[2]
                nvalues == a.asked[3]
                k == IF nbands = 0 THEN N ELSE nbands
                invoked == \/ pc[t].at \in {"native", "returned"}
                           \/ c.done /\ a.ctx /\ ~a.panic
            IN  /\ invoked =>
                      /\ a.bands =
                            [i \in 1..k |->
                                IF nbands = 0 THEN <<0, i>>
                                ELSE CInt(BandsOption(nbands)[i])]
                      /\ a.values =
                            [i \in 1..k |->
                                IF nvalues = 0 THEN <<0>>
                                ELSE IF nvalues = 1 THEN ValuesOption(1)[1]
                                ELSE ValuesOption(nvalues)[i]]
                /\ (k > 0 /\ nvalues \in {0, 1, k}) => a.ctx

\* RasterizeGeometry is in its native call on a dataset of three bands, with
\* no Bands option and the single value 0.5: it passed the bands 1, 2, 3 and
\* three times 0.5.
C25_Witness ==
    \E t \in Threads :
        /\ calls[t].op = "RasterizeGeometry" /\ pc[t].at = "native"
        /\ calls[t].args.asked = <<3, 0, 1>>
        /\ calls[t].args.bands = <<<<0, 1>>, <<0, 2>>, <<0, 3>>>>
        /\ calls[t].args.values = <<<<5>>, <<5>>, <<5>>>>

\* ------------------------------------------------------ reading a layer
\* The fids of the features the first layer holds, in the order of the
\* layer.
LayerOrder ==
    LET S == Fids(stored[1])
    IN  [k \in 1..Cardinality(S) |->
            CHOOSE x \in S : Cardinality({y \in S : y < x}) = k - 1]

IsPrefix(s, t) ==
    Len(s) <= Len(t) /\ \A i \in 1..Len(s) : s[i] = t[i]

\* What the caller got in its pass is the beginning of: every feature of the
\* layer once, in the order of the layer, and then nil.
PassInOrder == IsPrefix(read.got, Append(LayerOrder, -1))

\* The pass has come to its nil, and the caller knows what FeatureCount
\* returns for the layer.
PassCounted ==
    /\ read.got # <<>> /\ read.got[Len(read.got)] = -1
    /\ read.count >= 0

\* C26, as stated: the NextFeature calls made on a layer since its last
\* ResetReading (or since it was opened) have returned each feature of the
\* layer once, in the order of the layer, and then nil and nothing but nil;
\* and when they have come to nil, they returned as many features as
\* FeatureCount says. Stated for the passes in which no feature was added to
\* the layer or taken from it. It does not hold: FeatureCount and
\* Layer.Bounds may rewind the layer in the middle of a pass, after which a
\* feature is returned again, and CopyLayer, Rasterize and VectorTranslate
\* leave the layer at its end, after which NextFeature returns nil with
\* features not yet returned.
C26_LayerIteration ==
    ~read.written =>
        /\ PassInOrder
        /\ PassCounted => Len(read.got) - 1 = read.count

\* C26, amended: the same, for the passes in which no other call has moved
\* the read position of the layer either. Every wrapper NextFeature has
\* returned is a wrapper of its own native object, with a handle that was
\* not nil, which lives until the caller closes the wrapper; a NextFeature
\* that returns a feature returns it in a new wrapper and leaves the others
\* as they were. (The first NextFeature after a ResetReading returns the
\* first feature of the layer: the pass of one result.)
C26_UndisturbedPass ==
    /\ []((~read.written /\ ~read.moved) =>
            /\ PassInOrder
            /\ PassCounted => Len(read.got) - 1 = read.count)
    /\ [](\A f \in DOMAIN feats :
            LET w == feats[f]
            IN  /\ w.h0 # NULL
                /\ heap[w.h0].kind = "feat"
                /\ heap[w.h0].live <=> ~Closed(w)
                /\ \A e \in DOMAIN feats : feats[e].h0 = w.h0 => e = f)
    /\ [][Len(feats') # Len(feats) =>
            /\ Len(feats') = Len(feats) + 1
            /\ Len(heap') = Len(heap) + 1
            /\ feats'[Len(feats')] = Feature(Len(heap'))
            /\ \A f \in DOMAIN feats : feats'[f] = feats[f]]_vars

\* The layer was read to its end, rewound, and read to its end again, with
\* nothing else moving its read position: the second pass returned the
\* features in their order and then nil, FeatureCount had returned 2, four
\* wrappers were returned in all, and the caller has closed one.
C26_Witness ==
    /\ ~read.written /\ ~read.moved
    /\ read.got = Append([k \in 1..IterFeatures |-> k - 1], -1)
    /\ read.count = IterFeatures
    /\ Len(feats) = 2 * IterFeatures
    /\ \A f \in DOMAIN feats : heap[feats[f].h0].fid = (f - 1) % IterFeatures
    /\ \E f \in DOMAIN feats : Closed(feats[f])

\* ------------------------------------------------------ the switches passed
\* C27: the switches Rasterize passes to its native call are the caller's
\* switches in their order, then "-co" and the option for each creation
\* option in the order given, then - only with a driver option - "-of" and
\* the name of the driver: the raster name of its mapping when it has one,
\* else its identifier. VectorTranslate does the same with "-dsco", "-f" and
\* the vector name.
C27_SwitchAssembly ==
    \A t \in Threads :
        calls[t].op \in {"Rasterize", "VectorTranslate"} =>
            LET a == calls[t].args
                raster == calls[t].op = "Rasterize"
                n == Len(a.switches)
                m == Len(a.create)
                mapped == a.driver \in {"GTiff", "GeoJSON", "Mitab"}
                dname == IF ~mapped THEN a.driver
                         ELSE IF raster THEN driverMappings[a.driver].rasterName
                         ELSE driverMappings[a.driver].vectorName
            IN  /\ Len(a.passed) = n + 2 * m + (IF a.driver = "" THEN 0 ELSE 2)
                /\ \A i \in 1..n : a.passed[i] = a.switches[i]
                /\ \A j \in 1..m :
                      /\ a.passed[n + 2 * j - 1] = (IF raster THEN "-co" ELSE "-dsco")
                      /\ a.passed[n + 2 * j] = a.create[j]
                /\ a.driver # "" =>
                      /\ a.passed[n + 2 * m + 1] = (IF raster THEN "-of" ELSE "-f")
                      /\ a.passed[n + 2 * m + 2] = dname

\* Rasterize is in its native call with two switches, two creation options
\* and a driver whose mapping has no raster name, and VectorTranslate would
\* name the same driver "MapInfo File".
C27_Witness ==
    \E t \in Threads :
        /\ calls[t].op = "Rasterize" /\ pc[t].at = "native"
        /\ calls[t].args.driver = "Mitab"
        /\ calls[t].args.passed =
              <<"-te", "99", "-co", "TILED=YES", "-co", "BLOCKXSIZE=256", "-of", "">>
        /\ VectorTranslateSwitches(<<>>, <<>>, "Mitab") = <<"-f", "MapInfo File">>

\* ------------------------------------------------ contexts on every path
\* C28 as stated: on every path through an operation the context it creates
\* is closed, once, after one native call and before the operation ends: a
\* thread has a context open exactly while an operation of its is at its
\* native call or between that call and its close, never more than one, and
\* the context has seen one native call exactly when that call has returned;
\* the end of an operation closes its context; and an operation that ends
\* without a native call (an empty other geometry, mismatched counts) had
\* created none.
C28_ContextDiscipline ==
    /\ [](\A t \in Threads :
            /\ Len(ctxs[t]) <= 1
            /\ ctxs[t] # <<>> <=> pc[t].at \in {"native", "returned"}
            /\ calls[t].done => ctxs[t] = <<>>
            /\ \A i \in DOMAIN ctxs[t] :
                  ctxs[t][i].calls = (IF pc[t].at = "returned" THEN 1 ELSE 0))
    /\ [][\A t \in Threads :
            (pc[t].at = "returned" /\ pc'[t] # pc[t]) =>
                /\ ctxs'[t] = <<>> /\ Len(ctxs[t]) = 1
                /\ calls'[t].done /\ pc'[t].at = "idle"]_vars
    /\ [][\A t \in Threads :
            (pc[t].at = "idle" /\ calls'[t] # calls[t] /\ calls'[t].done) =>
                /\ calls'[t].err
                /\ ctxs[t] = <<>> /\ ctxs'[t] = <<>>
                /\ pc'[t].at = "idle"]_vars

\* ------------------------------------------------------ outliving borrows
\* A view into a parent that the caller has not closed.
OpenBorrow(k) ==
    /\ geoms[k].origin = "borrowing" /\ ~geoms[k].isOwned
    /\ geoms[k].handle # NULL

\* The wrapper that owns the parent of view k has been closed.
ParentClosed(k) ==
    \/ \E f \in DOMAIN feats :
          feats[f].h0 = geoms[k].parent /\ feats[f].destroys > 0
    \/ \E p \in DOMAIN geoms :
          /\ geoms[p].h0 = geoms[k].parent /\ geoms[p].isOwned
          /\ geoms[p].destroys > 0

\* A Close that destroys a native object writes the wrapper it is called on
\* and no other: every view obtained from that wrapper before keeps its
\* handle and its isOwned = false.
CloseWritesItsWrapperOnly ==
    /\ (lastOp'.op = "Feature.Close" /\ lastOp'.destroyed # NULL) =>
          /\ geoms' = geoms
          /\ \A f \in DOMAIN feats \ {lastOp'.recv} : feats'[f] = feats[f]
          /\ \A k \in DOMAIN geoms :
                (OpenBorrow(k) /\ geoms[k].parent = lastOp'.destroyed) =>
                    /\ geoms'[k].handle = geoms[k].handle
                    /\ ~geoms'[k].isOwned
    /\ (lastOp'.op = "Geometry.Close" /\ lastOp'.destroyed # NULL) =>
          /\ feats' = feats
          /\ \A k \in DOMAIN geoms \ {lastOp'.recv} : geoms'[k] = geoms[k]

\* C29 as stated: a Close of a parent writes the parent wrapper only, and
\* the views into closed parents are the whole of the danger: no open
\* wrapper refers to a destroyed native object if and only if no open view
\* has a closed parent.
C29_NoOutlivingBorrows ==
    /\ [][CloseWritesItsWrapperOnly]_vars
    /\ []((\A k \in DOMAIN geoms : OpenBorrow(k) => ~ParentClosed(k))
            <=> /\ \A k \in DOMAIN geoms :
                      geoms[k].handle # NULL => ~Dangling(geoms[k].handle)
                /\ \A f \in DOMAIN feats :
                      feats[f].handle # NULL => ~Dangling(feats[f].handle))

\* C29, amended: a Close of a parent writes the parent wrapper only; the
\* native object of every view that is open at that Close, and that the
\* parent still holds, is destroyed by it; and a destroyed native object
\* stays destroyed, so such a view refers to one from then on. The converse
\* is left out: an open wrapper can refer to a destroyed native object with
\* no parent closed.
C29_OutlivingBorrowDangles ==
    /\ [][CloseWritesItsWrapperOnly]_vars
    /\ [][\A k \in DOMAIN geoms :
            (/\ lastOp'.op \in {"Feature.Close", "Geometry.Close"}
             /\ lastOp'.destroyed # NULL
             /\ OpenBorrow(k) /\ geoms[k].parent = lastOp'.destroyed
             /\ geoms[k].parent \in heap[geoms[k].handle].owners) =>
                /\ geoms'[k].handle = geoms[k].handle
                /\ ~heap'[geoms[k].handle].live]_vars
    /\ [][\A o \in DOMAIN heap : ~heap[o].live => ~heap'[o].live]_vars

\* The parent feature of an open view has just been closed; the view still
\* has its handle, on a destroyed native object.
C29_Witness ==
    /\ lastOp.op = "Feature.Close" /\ lastOp.destroyed # NULL
    /\ ~crashed
    /\ \E k \in DOMAIN geoms :
          /\ OpenBorrow(k) /\ ParentClosed(k)
          /\ geoms[k].parent = lastOp.destroyed
          /\ Dangling(geoms[k].handle)

\* --------------------------------------------------- the width of an Int field
\* C30 as stated: after a SetValue that succeeded on a field of kind Int, the
\* payload cached on the Field is the payload a fresh Fields() decodes for
\* that field from the native feature.
C30_IntCacheIsSnapshot ==
    (/\ fout.op = "SetValue" /\ ~fout.err /\ ~fout.panic
     /\ held[1].ftype = "FTInt") =>
        GoEqual(held[1].val,
                FieldVal(schema[held[1].index + 1], native[held[1].index + 1]))
====
